---- MODULE Spec2Model ----
(***************************************************************************)
(* Cellular genetic algorithm engine (src/lib/cellular-ga.ts).             *)
(*                                                                         *)
(* The state is a table of engine instances (CellularGA objects), each     *)
(* with its own object heap, and a table of SeededRandom generators.       *)
(* evolve() is followed through its loop: EvolveStart (the empty           *)
(* newPopulation buffer), one EvolveCell per cell id, and EvolveFinish     *)
(* (install, generation++, updateHistory()).  evolve() is synchronous, so  *)
(* no other engine operation runs while one engine is inside its loop.     *)
(*                                                                         *)
(* Two more variables carry the parts of the library that are exercised on *)
(* their own: tm is a TopologyManager built outside an engine, with the    *)
(* rewiring loops of buildSmallWorld() followed slot by slot, and call is  *)
(* the last call made on an object together with the value it returned.    *)
(* driver is the simulator component (src/components/ga-simulator): its    *)
(* refs and state, the animation-frame callbacks and timeouts it has       *)
(* pending, with one action per handler.                                   *)
(*                                                                         *)
(* Specifications: Spec, SpecTwin and SpecLong run engines through         *)
(* evolve(); SpecOps adds the engine's read operations; SpecTopology       *)
(* builds a TopologyManager and looks cells up in it; SpecStream calls a   *)
(* SeededRandom generator; SpecFitness applies the fitness functions;      *)
(* SpecDriver runs the simulator component's handlers over its engines.    *)
(*                                                                         *)
(* Numbers.  Math.sin cannot be computed in TLA+, so the value of          *)
(* random() for seed s is tabulated: SinTable[s + 1] is                    *)
(* floor(frac(sin(s) * 10000) * SCALE) for s = 0, 1, 2, ...  Probabilities *)
(* (mutationRate, crossoverRate, rewiringProb) are written in percent.     *)
(* Only bit-vector runs (onemax, trap) are evaluated; the real-vector      *)
(* variants need floating point and are outside the model.                 *)
(***************************************************************************)
EXTENDS Integers, Sequences, FiniteSets, TLC

VARIABLES engines, rngs, tm, call, driver

vars == <<engines, rngs, tm, call, driver>>

(***************************************************************************)
(* SeededRandom                                                            *)
(***************************************************************************)
SinTable ==
  <<
    0, 709848, 974268, 200080, 975046, 757253, 845018, 865987, 582466, 184852, 788891, 97934,
    270819, 670368, 73556, 878401, 966833, 25081, 127532, 772096, 452507, 556385, 486907, 795958,
    216379, 482499, 584504, 759284, 57883, 661157, 683759, 623546, 266812, 118601, 826861, 173305,
    211465, 618666, 685787, 953862, 131604, 773311, 784520, 252573, 19251, 35245, 883476, 731227,
    453386, 473472, 251462, 291758, 275920, 251501, 109511, 448266, 489979, 647552, 726480, 380071,
    893788, 822299, 193033, 557003, 260381, 286794, 488459, 800210, 723193, 151862, 906815, 546532,
    233627, 280431, 537395, 183645, 76368, 201585, 784559, 873312, 113460, 120057, 287824, 644611,
    903200, 243800, 415529, 821633, 983027, 694058, 966636, 875117, 339303, 178587, 480145, 617147,
    877454, 77390, 181280, 931658, 343588, 257871, 267913, 886314, 775968, 647164, 574999, 817445,
    185054, 426066, 573219, 485513, 43956, 180941, 803886, 353340, 613933, 20590, 478309, 958985,
    111842, 152247, 131538, 965093, 130131, 595408, 908256, 300672, 377105, 266079, 940498, 966128,
    835871, 657562, 248164, 686861, 667932, 855454, 477404, 801312, 396594, 713653, 49928, 546391,
    784061, 451620, 691731, 440218, 666056, 513519, 235703, 498814, 205237, 5807, 796627, 880172,
    153811, 514571, 240965, 197317, 252583, 922144, 496492, 898241, 327780, 972794, 915637, 498131,
    267112, 1323, 494554, 908679, 591401, 894670, 380257, 654048, 522360, 897877, 753358, 221672,
    473642, 485998, 189340, 804082, 843832, 211800, 760624, 289766, 763309, 179536, 992786, 85484,
    616423, 434253, 136707, 546679, 300555, 58429, 214083, 11639, 27027, 97492, 184068, 97001,
    203593, 24922, 580968, 949724, 679301, 666417, 185183, 521461, 529062, 293801, 994513, 456219,
    584883, 183905, 754726, 852585, 987124, 387978, 508382, 534852, 790026, 51219, 561828, 585970,
    230624, 623697, 357959, 158102, 232767, 392818, 166912, 866409, 679105, 421302, 238868, 906812,
    451549, 617132, 880924, 906511, 637006, 874367, 599996, 71855, 521192, 368065, 719804, 61397,
    122110, 237286, 988980, 83650, 919658, 428251, 356268, 931839, 397038, 187909, 82904, 528145,
    174862, 101700, 540264, 681772, 649889, 531197, 540535, 108186, 569384, 1548, 885933, 146740,
    143399, 43136, 210918, 827877, 905791, 485636, 502354, 525197, 639681, 715902, 852411, 590518,
    956292, 789797, 456339, 142254, 259810, 990012, 900107, 180889, 612505, 690550, 376291, 232783,
    441600, 359504, 528310, 325048, 68037, 960581, 382865, 646357, 30360, 13749, 876886, 717854,
    85242, 905097, 70939, 332645, 873480, 397884, 387940, 250043, 445719, 82654, 122598, 15338,
    347805, 637265, 886657, 348053, 847343, 389491, 183707, 88518, 956581, 788338, 721491, 329489,
    474057, 928487, 108031, 255514, 107401, 32333, 396822, 16448, 96604, 41826, 459504, 626321,
    638725, 555582, 671749, 172087, 498506, 99708, 546973, 698556, 127285, 151180, 98346, 221986,
    157234, 865543, 906756, 461398, 89803, 464039, 900726, 474803, 56089, 885229, 350604, 321845,
    57860, 673416, 929865, 424483, 608727, 814524, 364656, 655749, 218708, 220489, 328783, 232289,
    564336, 269738, 100708, 481718, 885405, 428937, 99105, 827103, 150601, 26313, 965763, 69442,
    524314, 336047, 580087, 679352, 806403, 246804, 567906, 739577, 435911, 457653, 484527, 773216,
    25310, 140476, 545059, 252820, 81190, 237597, 852368, 393308, 255498, 603938, 145805, 621499,
    882756, 812877, 355864, 144124, 548686, 902277, 546624, 57944, 941486, 410837, 538496, 675144,
    807755, 474021, 396769, 919810, 645812, 425902, 280171, 301791, 52932, 700129, 6615, 715718,
    152156, 168436, 424628, 849530, 725721, 227616, 162749, 176939, 201491, 65686, 56333, 396468,
    473241, 701468, 349486, 509457, 425466, 218060, 886302, 701755, 747870, 727929, 665970, 818590,
    519041, 9366, 744877, 678947, 197680, 464674, 761131, 642730, 862426, 129744, 302577, 897831,
    167137, 807186, 629288, 831767, 29667, 170215, 857761, 863110, 193265, 891657, 613403, 516712,
    43809, 229093, 982265, 663039, 567209, 193939, 436270, 953335, 281946, 282964, 798869, 617608,
    553921, 553508, 205966, 686535, 172460, 504237, 266675, 704007, 184940, 576505, 905929, 41514,
    292412, 441260, 819937, 429929, 47206, 348266, 767042, 755532, 757972, 222694, 26482, 621285,
    399997, 725475, 165538, 176951, 957610, 391169, 79016, 706755, 408251, 515986, 983243, 221022,
    70956, 480068, 687571, 971507, 556568, 987229, 156816, 665391, 627975, 648723, 159225, 596214,
    124114, 86403, 130525, 826108, 601641, 637677, 11242, 91629, 185852, 351572, 766604, 81620,
    358904, 81257, 741133, 488258, 462319, 724629, 484164, 631551, 109591, 345992, 962755, 712612,
    472215, 640805, 766166, 386068, 838049, 142421, 205170, 839431, 660865, 879483, 813917, 499553,
    345907, 818432, 379027, 600770, 635696, 542847, 800310, 450250, 569628, 419090, 230925, 211492,
    824483, 226081, 41352, 775062, 838861, 207546, 653171, 642100, 793349, 279914, 176282, 92331,
    324771, 364857, 13784, 823077, 104324, 12769, 283006, 525393, 763242, 613536, 619482, 521846,
    353126, 162728, 686835, 505851, 284729, 348185, 819970, 586509, 698291, 779757, 420620, 372058,
    566112, 275715, 183234, 267178, 475018, 447037, 542147, 887617, 908865, 374123, 975880, 37384,
    213001, 22076, 532008, 155065, 345389, 894973, 24406, 565055, 390498, 194884, 625832, 155688,
    330297, 707733, 160664, 670508, 855985, 281479, 583541, 82081, 974316, 631431, 466320, 206910,
    890019, 842780, 711368, 281862, 661556, 873412, 236140, 927932, 409219, 887835, 361779, 64606,
    805528, 115081, 39335, 882788, 910229, 113410, 793536, 823983, 270550, 809008, 455800, 663604,
    8898, 876727, 237918, 904715, 705233, 265846, 329831, 588542, 733851, 413745, 630866, 203068,
    774858, 615908, 602887, 35574, 723362, 603224, 580987, 928287, 423897, 320493, 494728, 635536,
    283035, 100620, 779578, 217448, 155976, 420383, 389478, 859206, 525642, 368171, 698518, 226151,
    884043, 474735, 472128, 80084, 974510, 583139, 477535, 210175, 776773, 175040, 769744, 110578,
    315259, 628488, 134335, 80136, 261583, 114600, 729502, 178060, 543391, 587259, 622043, 351939,
    622905, 132958, 67465, 654713, 833233, 739181, 177637, 697873, 609541, 461624, 4383, 190062,
    798314, 915185, 319597, 666711, 599095, 151384, 496610, 947683, 885785, 488069, 988565, 750766,
    288621, 360209, 650480, 836602, 640939, 739364, 573337, 182893, 267392, 333151, 46927, 588322,
    860367, 795037, 493210, 650335, 184219, 165143, 585535, 1621, 696481, 275624, 961642, 369978,
    64624, 57347, 768657, 519623, 687352, 955683, 863479, 795641, 329140, 414706, 205119, 501911,
    988886, 409947, 411427, 78184, 970923, 182552, 318870, 780976, 177373, 156896, 28168, 584054,
    592351, 518755, 602690, 122890, 608967, 429756, 74215, 70322, 477366, 440741, 959353, 674587,
    719079, 318355, 437907, 955898, 968512, 86330, 298649, 56935, 64409, 234150, 277317, 151923,
    562197, 581076, 309273, 984481, 742331, 962036, 98730, 378646, 657285, 89250, 421683, 649263,
    194898, 586484, 438180, 115549, 606015, 990814, 664385, 493037, 620995, 461887, 812355, 932782,
    387825, 967787, 221831, 482737, 60053, 38345, 166021, 305336, 168800, 14881, 123735, 186893,
    464294, 620293, 112853, 697507, 778687, 229424, 714113, 646283, 279243, 335100, 293680, 707322,
    32744, 600877, 52797, 309803, 565852, 134866, 507007, 693335, 613109, 727318, 320762, 699225,
    540568, 880504, 613145, 603379, 715894, 517069, 157451, 615763, 652296, 996275, 494430, 781564,
    556223, 575443, 152006, 596913, 553296, 221911, 587650, 667583, 209998, 932813, 437843, 272688,
    153331, 3682, 90503, 54569, 883078, 214072, 768129, 915362, 196214, 375529, 119355, 307314,
    675442, 492564, 647941, 243603, 280894, 631645, 940015, 476666, 947833, 845431, 928680, 954218,
    865110, 632263, 593684, 176005, 451186, 563788, 895687, 922210, 914013, 40582, 956801, 603443,
    891565, 905848, 774350, 371806, 232654, 79262, 306424, 762557, 134009, 518136, 418904, 428988,
    417702, 213327, 683585, 560276, 229556, 330877, 350093, 382146, 946220, 108331, 825952, 334053,
    253513, 325195, 268480, 392472, 795405, 905975, 665419, 583990, 55748, 755097, 77356, 618662,
    833757, 718407, 428297, 859504, 81916, 423277, 620578, 378825, 201676, 32320, 628621, 274271,
    560145, 115061, 750601, 146277, 666199, 734706, 712690, 822072, 926505, 327227, 990559, 594227,
    130566, 512376, 796333, 544305, 337676, 928385, 23435, 999444, 586129, 832818, 277850, 391202,
    51679, 83428, 877974, 530418, 273959, 832885, 565384, 949860, 849719, 507718, 93973, 547711,
    8798, 714005, 184183, 976718, 500768, 566187, 95355, 350565, 221201, 95669, 801574, 402103,
    695205, 616032, 986183, 286659, 452262, 549154, 639127, 969884, 898022, 966035, 509017, 802827,
    808634, 899195, 223718, 275292, 333793, 178488, 938977, 417387, 685864, 399984, 621120, 830497,
    504945, 812641, 15306, 176706, 549207, 978796, 893446, 940548, 643913, 904215, 689119, 450522,
    805043, 471558, 119562, 577160, 245386, 76560, 489724, 507392, 166176, 125483, 254653, 875878,
    37116, 871517, 578945, 640435, 531682, 738406, 538688, 165781, 317266, 967494, 411069, 197863,
    551427, 385287, 221883, 415550, 667989, 878735, 949779, 520486, 732965, 641097, 385302, 307275,
    982770, 178186, 826466, 991198, 936922, 986325, 177536, 853365, 129761, 711795, 646394, 931422,
    663090, 113210, 844608, 438607, 24123, 227177, 534313, 643132, 722562, 285754, 759264, 559603,
    32289, 876569, 935479, 640260, 821106, 80300, 570702, 804160, 293804, 475398, 95767, 330224,
    968916, 543660, 919004, 635893, 941338, 264716, 634204, 350614, 201354, 151892, 891801, 652325,
    837905, 953728, 692212, 238083, 489237, 249531, 621156, 391616, 505520, 261075, 894945, 171326,
    213935, 885981, 842311, 642085, 549439, 782334, 128946, 681660, 401566, 428113, 749093, 232382,
    277063, 184928, 688776, 131913, 615533, 470105, 529018, 105965, 560346, 419622, 583960, 211469,
    112449, 629716, 721506, 316739, 256284, 945365, 87236, 876087, 297378, 800794, 276547, 657201,
    896834, 46678, 989328, 936915, 804691, 575577, 668610, 680248, 680396, 67530, 196726, 926637,
    557914, 350759, 636480, 961439, 642218, 441128, 28791, 947290, 641434, 229011, 752407, 219565,
    571043, 389779, 489222, 687375, 414830, 532357, 999907, 281192, 227756, 682080, 607382, 216629,
    199253, 603482, 409577, 614153, 266310, 522871, 974545, 162925, 364958, 64440, 696579, 547405,
    593414, 112088, 192626, 939205, 368206, 738236, 616563, 550914, 787471, 979570, 229998, 354352,
    757929, 964183, 823371, 789148, 869918, 160514, 749666, 106261, 214562, 253875, 943172, 19118,
    505774, 908468, 222184, 878258, 267792, 367578, 252695, 62222, 82299, 170537, 854648, 817717,
    696136, 116284, 830801, 807118, 905058, 263326, 688785, 204091, 905288, 925907, 493153, 921162,
    221993, 865296, 121749, 569250, 276897, 656348, 857295, 816404, 753364, 46316, 181160, 761137,
    917629, 927749, 669585, 831837, 600105, 80924, 856880, 45933, 807454, 575414, 306189, 35072,
    212176, 631777, 619010, 866417, 957793, 690226, 417295, 437515, 538773, 578340, 890487, 641285,
    527621, 603160, 912049, 888904, 774687, 72249, 595480, 598236, 186335, 416707, 733120, 36168,
    64272, 367718, 465837, 304203, 634167, 737015, 149993, 865462, 739112, 479396, 502161, 436805,
    781451, 888532, 195589, 712658, 295018, 561503, 307365, 783237, 39613, 420068, 668605, 643064,
    878424, 205633, 91389, 423838, 746638, 907329, 199338, 716560, 242165, 43096, 312710, 584709,
    236751, 606222, 524018, 941695, 205774, 361269, 472423, 6362, 186955, 99355, 2786, 774975,
    406954, 86205, 777199, 103343, 288356, 764513, 238359, 962342, 812133, 693366, 923779, 964240,
    944495, 895886, 281180, 153543, 727909, 677675, 364487, 406961, 897178, 759217, 869823, 726548,
    272657, 102519, 803638, 83687, 57242, 541629, 837368, 275303, 327373, 582815, 302295, 921975,
    224834, 668603, 362301, 534686, 681573, 835988, 415013, 186580, 79318, 144231, 109591, 475018,
    518807, 732556, 870112, 450276, 745416, 511157, 5184, 745759, 732806, 608542, 283112, 175959,
    253971, 349674, 670399, 173851, 67323, 392798, 744519, 295097, 70285, 164164, 750205, 793006,
    980430, 56610, 432898, 945429, 83192, 56877, 952943, 508683, 188043, 309153, 426295, 676127,
    584009, 561403, 649112, 497522, 659824, 961843, 193445, 979745, 383387, 333395, 390330, 943075,
    634282, 356692, 402799, 2442, 637766, 730272, 368628, 879621, 593816, 381014, 550831, 960418,
    442395, 147543, 706428, 78539, 93518, 93497, 86377, 894436, 18336, 545258, 46464, 580774,
    541576, 83102, 497695, 670611, 39941, 254203, 688827, 485797, 929395, 258450, 651422, 666964,
    158004, 590180, 74487, 615798, 834503, 517326, 792894, 483831, 531416, 243808, 78894, 679679,
    638095, 292690, 593171, 292829, 722582, 716530, 971037, 784277, 76179, 63955, 745534, 25546,
    296908, 892734, 859995, 437460, 176587, 964173, 625539, 167976, 740615, 716009, 957377, 375743,
    725108, 475876, 175199, 18912, 752093, 909049, 368040, 654740, 584358, 80753, 797884, 380471,
    824067, 235090, 72665, 116248, 489183, 185389, 995023, 723044, 713424, 328212, 12139, 443029,
    614529, 300959, 897038, 663973, 22690, 181861, 850856, 84426, 635578, 565072, 119392, 471108,
    459835, 269349, 117920, 694631, 719105, 9930, 351901, 591266, 188172, 947155, 911583, 330772,
    85690, 494191, 744841, 421367, 950346, 485429, 408220, 270078, 303507, 437888, 225480, 884628,
    559619, 193361, 112041, 78307, 844299, 870045, 680868, 356812, 243055, 78965, 295641, 618974,
    336161, 540397, 10452, 203141, 65235, 114688, 913374, 43944, 871752, 416190, 471745, 149290,
    516539, 18986, 700260, 283580, 373833, 641878, 925012, 476750, 962989, 993951, 727490, 928060,
    268389, 856417, 949493, 279951, 223786, 77397, 248158, 833857, 794410, 278691, 390110, 691455,
    12189, 952177, 654619, 59903, 580699, 995149, 134441, 669663, 71023, 177995, 211424, 329317,
    542184, 546737, 291207, 204049, 415030, 359525, 635508, 521470, 173094, 797078, 20522, 418310,
    226878, 534760, 243374, 512267, 415991, 387489, 261465, 136740, 551864, 246249, 465093, 404447,
    535414, 105781, 138498, 9393, 244876, 451380, 788718, 508708, 199492, 609369, 988555, 577152,
    599149, 994066, 381837, 837335, 281886, 132376, 439921, 410267, 23342, 867351, 302600, 999009,
    91377, 53616, 558077, 801654, 729617, 397864, 329821, 960316, 692198, 601388, 895399, 492782,
    475894, 653058, 292069, 10050, 815097, 707764, 997792, 636946, 188466, 475710, 895281, 457247,
    961959, 720462, 266687, 476535, 389540, 877141, 737727, 932527, 269256, 20250, 7040, 144187,
    23527, 440533, 681141, 393004, 466252, 83638, 997691, 475894, 901523, 452179, 188707, 981290,
    227614, 874742, 644357, 873700, 714805, 818239, 910655, 473769, 173076, 768012, 764452, 511362,
    73360, 294093, 589729, 969854, 132595, 140375, 518270, 223973, 996201, 94001, 782186, 541670,
    566605, 791760, 957055, 149108, 561039, 18223, 980084, 613313, 350869, 138722, 919339, 224258,
    829094, 203677, 427030, 681248, 845213, 508394, 477059, 52803, 709236, 280840, 979387, 121825,
    239849, 162682, 319535, 510703, 537091, 708810, 623622, 604795, 342870, 58640, 282399, 394605,
    317051, 53500, 8209, 356651, 397734, 579087, 292748, 651131, 715902, 390233, 701312, 249076,
    443694, 932517, 271831, 268697, 318964, 262449, 137833, 850494, 70703, 236519, 641563, 661075,
    921212, 174924, 373217, 9589, 217264, 668991, 349222, 667321, 212637, 612984, 153249, 659041,
    596656, 451027, 814470, 255220, 640778, 55068, 116638, 901665, 690695, 169358, 366826, 902874,
    216258, 181836, 755279, 752236, 823596, 710291, 25108, 253710, 885606, 707690, 853986, 135205,
    982978, 846462, 319003, 217926, 150575, 192183, 692619, 460822, 127303, 403925, 827696, 846020,
    795100, 91722, 767221, 472097, 578651, 148321, 443814, 974206, 379643, 969360, 281779, 428275,
    985166, 337279, 132611, 480532, 202016, 442787, 596828, 910732, 501032, 907387, 126074, 792618,
    876804, 790381, 982869, 183379, 854359, 288345, 699103, 238575, 398171, 924736, 444304, 272539,
    28887, 81649, 631890, 125365, 460285, 147065, 791469, 557448, 486750, 601235, 245788, 497355,
    283558, 748783, 224045, 511568, 913071, 237636, 970248, 90374, 395044, 959401, 369799, 119745,
    799144, 829199, 701905, 428796, 300854, 759900, 360830, 720243, 863600, 669650, 628823, 57534,
    316744, 619143, 780591, 605412, 619883, 530465, 494267, 960099, 666503, 916863, 511415, 698996,
    915983, 355536, 215970, 140200, 336811, 249393, 796368, 703600, 273238, 395378, 527542, 326425,
    223096, 228819, 824506, 208717, 890338, 975766, 866987, 806880, 429872, 284601, 686723, 506106,
    664049, 742554, 414659, 483426, 773022, 387934, 16985, 894705, 238770, 644825, 72729, 263179,
    703512, 696051, 448505, 226177, 24991, 710723, 383568, 225409, 489238, 980073, 53121, 591589,
    390456, 87700, 429445, 50656, 493790, 70041, 388683, 473994, 335007, 915023, 789129, 751302,
    491891, 440899, 662252, 528561, 41666, 765603, 556929, 192151, 638449, 857549, 242105, 30846,
    595067, 985750, 201133, 712492, 585677, 310229, 550668, 240188, 704501, 453094, 285724, 16159,
    66634, 477084, 301038, 747686, 173916, 970964, 255338, 909906, 693423, 167289, 154535, 497674,
    891559, 755638, 842609, 9381, 273211, 267513, 808661, 686934, 221450, 409496, 792950, 270458,
    581686, 229433, 319144, 536859, 271383, 106102, 797153, 311563, 320706, 504277, 234798, 527561,
    321944, 560303, 190440, 565591, 678318, 832382, 983724, 275270, 754437, 230747, 316810, 308283,
    962909, 278071, 775549, 94424, 291998, 538902, 980184, 3146, 413143, 435971, 925217, 987575,
    61232, 256721, 827625, 985235, 101665, 936408, 295708, 17298, 996802, 633954, 980963, 590574,
    609662, 488449, 33250, 275035, 941874, 985344, 171246, 355639, 411300, 340128, 968968, 269371,
    680440, 863880, 519409, 948587, 52148, 987459, 484157, 949018, 848134, 850845, 567212, 145398,
    233000, 252877, 913970, 524922, 5418, 95786, 673148, 463425, 721700, 852253, 790549, 616654,
    156076, 76626, 206405, 752863, 233608, 937672, 550955, 404049, 699559, 3844, 903314, 871132,
    451484, 471421, 63457, 211510, 816739, 594930, 864072, 382331, 766336, 576722, 868795, 981057,
    924261, 763906, 856613, 711056, 820541, 638336, 584324, 64067, 563769, 359133, 962493, 20217,
    615550, 720772, 123773, 491623, 276344, 22897, 641973, 552476, 409110, 885261, 560169, 460000,
    238443, 99752, 38656, 28424, 586799, 650557, 359751, 50153, 843422, 5604, 964114, 109006,
    500528, 270101, 854474, 936088, 991447, 999205, 7015, 317513, 336029, 577706, 487965, 634899,
    870108, 589217, 781440, 852650, 332148, 907150, 131379, 445630, 191012, 297572, 315183, 126690,
    745988, 736634, 326477, 764828, 886072, 417528, 391362, 120625, 957402, 80030, 454567, 515210,
    316546, 425879, 354472, 762840, 112550, 631597, 925582, 61010, 424219, 311214, 919807, 963060,
    411171, 158772, 908328, 902696, 253480, 447408, 432228, 760370, 985852, 651796, 113684, 514346,
    586472, 945958, 425277, 757154, 679604, 813783, 286177, 422954, 150540, 960649, 788691, 226694,
    613136, 728730, 733567, 715728, 336358, 839027, 810153, 916277, 933385, 326120, 838902, 960397,
    254710, 393705, 999896, 79445, 548665, 664042, 40622, 496458, 80845, 82011, 546127, 681267,
    643419, 392483, 743636, 126602, 155829, 774030, 536764, 53335, 375547, 524118, 847854, 910191,
    29463, 257962, 76252, 434539, 508990, 661340, 973313, 911919, 617339, 874237, 619583, 225379,
    320977, 337958, 117839, 283835, 481308, 346610, 764004, 594499, 266723, 336817, 238740, 175273,
    834025, 274571, 198391, 570273, 55729, 794645, 892949, 597826, 473447, 433317, 476620, 772027,
    367136, 903547, 6989, 474777, 748642, 689711, 401799, 859566, 189086, 619628, 725586, 215342,
    839402, 804329, 825131, 795216, 926571, 909473, 81411, 628735, 856736, 538748, 391003, 670415,
    3705, 481703, 80285, 617315, 146393, 506391, 693434, 358492, 239785, 89021, 375514, 219267,
    390986, 321519, 920480, 596931, 711965, 591208, 685792, 734362, 605918, 987659, 481277, 784806,
    755466, 490319, 88818, 559541, 107340, 889266, 275028, 819020, 158909, 354471, 289037, 852179,
    569566, 889895, 150244, 904047, 888938, 404041, 643976, 128859, 543346, 724774, 737819, 981516,
    892504, 948440, 414917, 638133, 724764, 53864, 555328, 478963, 141666, 686600, 599566, 623112,
    328186, 888356, 425929, 50597, 857372, 973376, 917174, 990534, 446161, 973011, 909636, 963828,
    733484, 58330, 766086, 298973, 483707, 275870, 310042, 59286, 575893, 870978, 856459, 28664,
    362731, 897213, 892033, 712299, 142367, 68226, 686259, 640294, 504821, 709520, 453731, 22257,
    247130, 115834, 722106, 385631, 362689, 912963, 900225, 620895, 292147, 347859, 751954, 756986,
    105749, 807428, 272861, 100043, 871276, 184331, 863997, 25608, 17180, 119246, 240913, 708326,
    829048, 531883, 833298, 393908, 975950, 908198, 229606, 979045, 223125, 982386, 151393, 474139,
    842262, 503491, 874852, 547376, 984093, 836715, 860005, 517951, 764413, 221950, 861068, 976280,
    108827, 22787, 791650, 534809, 574714, 993702, 718920, 889034, 334363, 436280, 507176, 122388,
    81759, 170280, 950660, 697541, 908511, 65414, 742294, 99911, 209242, 85138, 804112, 834317,
    800948, 57010, 298399, 730760, 415008, 624432, 439211, 468043, 683863, 21031, 252458, 657036,
    332050, 377617, 683439, 131327, 233517, 319531, 958380, 288644, 434690, 37349, 242223, 309414,
    147594, 850756, 381993, 481484, 525591, 806145, 579618, 67590, 128941, 976301, 167405, 931781,
    357997, 891210, 313632, 526255, 637643, 897542, 167966, 359693, 82909, 372838, 90707, 258503,
    883164, 788992, 773573, 747914, 707333, 610341, 767565, 924113, 551403, 380318, 973290, 867520,
    610736, 356212, 1165, 361172, 394702, 977013, 219525, 889311, 983344, 944760, 796433, 568310,
    660886, 863005, 450365, 946635, 64514, 647271, 511030, 679994, 316610, 591988, 998934, 39558,
    126653, 930295, 870529, 950127, 854647, 911050, 633547, 536098, 572292, 442483, 173490, 367880,
    952152, 259955, 368302, 304024, 645845, 893393, 778355, 730688, 851763, 279959, 977499, 233013,
    43093, 861228, 690345, 219164, 55376, 302324, 17581, 182702, 720774, 552628, 80284, 771468,
    940520, 227479, 977354, 893372, 735787, 164081, 842800, 691682, 687714, 143900, 857681, 586631,
    149768, 726948, 953072, 536508, 427019, 552107, 658894, 382276, 457102, 957448, 2460, 752775,
    620046, 965880, 146956, 724007, 911710, 39088, 876422, 944007, 433874, 708520, 620689, 243713,
    337971, 950914, 100834, 357060, 684868, 820582, 430946, 554994, 809332, 760616, 561216, 522646,
    567450, 604802, 890405, 534130, 331306, 498177, 75522, 251143, 2650, 875743, 74567, 231841,
    391924, 85866, 250628, 845625, 260258, 689439, 617505, 226979, 479655, 647273, 126924, 849672,
    745117, 582281, 687938, 534672, 620825, 536487, 975794, 907795, 806284, 918843, 101636, 122982,
    531867, 612255, 464634, 311069, 723640, 289763, 256479, 518105, 764018, 912447, 187489, 618032,
    66941, 952275, 470397, 926532, 448439, 412545, 22437, 593361, 411548, 12568, 970445, 812624,
    398973, 441597, 160596, 683867, 231298, 987497, 765587, 108898, 305970, 858597, 403017, 46188,
    657475, 361791, 720136, 156361, 436351, 235266, 75455, 511251, 239571, 872870, 144360, 54499,
    736433, 857374, 56031, 829609, 278421, 86292, 780339, 994132, 903163, 464686, 988907, 596604,
    523034, 392341, 820203, 591498, 430416, 301837, 840996, 338126, 909871, 198643, 578601, 81304,
    882573, 36903, 109753, 501916, 547712, 817497, 13600, 520389, 597087, 200156, 817443, 934491,
    205097, 930169, 77769, 551832, 784880, 547504, 433870, 801032, 900982, 505263, 951786, 406606,
    64119, 126597, 715776, 712764, 847545, 993256, 577926, 246107, 263078, 869979, 490491, 195853,
    393053, 924124, 885824, 477121, 828829, 944357, 818114, 377797, 442051, 846241, 205693, 27978,
    423259, 408853, 512603, 999745, 492644, 66362, 230706, 187412, 90344, 34360, 164045, 273855,
    143806, 581102, 297662, 567359, 270823, 274595, 934689, 198147, 75109, 34602, 41143, 823846,
    906686, 495198, 184624, 860734, 705943, 900152, 55027, 375212, 244004, 850717, 129361, 284721,
    190972, 661584, 825472, 532514, 919272, 466654, 99132, 685351, 885017, 582963, 893913, 527354,
    396824, 974240, 922188, 860516, 70818, 579456, 389724, 705613, 291480, 918500, 700993, 371101,
    899742, 205869, 994718, 152902, 265950, 812529, 804284, 376858, 86207, 927110, 756473, 427132,
    889725, 537378, 534633, 97554, 927844, 53748, 596913, 816141, 30660, 332235, 546770, 505295,
    324741, 949655, 835231, 471322, 884894, 290573, 152398, 146925, 361995, 936667, 853441, 899377,
    126156, 597880, 810206, 874547, 202158, 504436, 609892, 230809, 841758, 338905, 120885, 219177,
    591767, 463583, 53534, 420825, 390754, 244981, 241275, 932900, 853225, 835987, 949213, 330061,
    389206, 506202, 314658, 126685, 381473, 937298, 927882, 256660, 669926, 347114, 458571, 382198,
    374314, 482887, 283903, 902762, 440187, 965564, 985314, 249768, 236911, 122843, 480826, 807243,
    849230, 283570, 991167, 165958, 151104, 712834, 301241, 344931, 8271, 991946, 837703, 4311,
    823992, 404213, 587168, 366598, 635941, 850100, 317754, 39129, 572789, 181927, 309635, 271722,
    276208, 456840, 914471, 747829, 967254, 711241, 13146, 413306, 304238, 111583, 285252, 839756,
    683085, 71890, 277964, 857677, 384558, 188340, 456844, 529419, 205230, 200504, 812423, 196937,
    882212, 366086, 522883, 477789, 471771, 402780, 206060, 175391, 388604, 359627, 742649, 717749,
    278053, 633614, 658318, 190375, 423379, 55639, 609737, 306677, 746862, 870015, 452013, 940728,
    230108, 94571, 542341, 558994, 625172, 128830, 154252, 3368, 142006, 265639, 690876, 669325,
    551502, 829137, 793422, 65919, 241841, 199795, 42062, 345048, 89693, 336374, 771950, 565061,
    939189, 702225, 208317, 981648, 86295, 65485, 656589, 976842, 820414, 240186, 988033, 748655,
    885870, 102936, 243702, 287008, 824625, 155069, 485812, 798004, 472820, 549945, 88923, 812638,
    287188, 487302, 889690, 439613, 867890, 555840, 182864, 631182, 721080, 80757, 545611, 440705,
    929907, 225975, 649301, 632492, 828327, 660689, 33638, 553758, 368071, 897394, 894616, 470149,
    917786, 475497, 278246, 135333, 304534, 723215, 323091, 678066, 905273, 300298, 241102, 268188,
    539873, 289350, 961015, 283036, 710671, 130495, 695029, 166635, 239937, 140193, 491335, 195049,
    911276, 950549, 712097, 689987, 877572, 979475, 768329, 676851, 239442, 223565, 604180, 82372,
    153035, 375279, 292193, 390608, 716604, 996374, 315507, 687435, 882817, 542842, 557285, 185653,
    772568, 135823, 678745, 941967, 426740, 625100, 632335, 305694, 922152, 249313, 822632, 359947,
    959882, 889629, 402149, 612413, 432667, 41231, 959940, 316760, 322292, 456851, 236100, 792758,
    6198, 562300, 516349, 796532, 139636, 137099, 877566, 718675, 118872, 515647, 530927, 22075,
    943625, 8222, 521942, 679505, 980144, 220176, 443789, 121203, 267302, 530843, 69297, 502980,
    395580, 55617, 448618, 454981, 173, 10525, 15549, 993614, 237610, 881009, 251113, 140432,
    814235, 144692, 297237, 852342, 150637, 80854, 711777, 886815, 93129, 866971, 844279, 821021,
    598870, 911135, 441171, 566274, 781005, 116535, 732214, 394371, 8636, 942963, 565250, 491802,
    207544, 459654, 888281, 936364, 832141, 960800, 508101, 323013, 757274, 571031, 721974, 771472,
    801803, 547678, 484552, 149679, 561946, 158541, 282082, 740185, 333127, 405418, 505941, 849888,
    445566, 827690, 95419, 919793, 125490, 931937, 806544, 770681, 584720, 490275, 267552, 650914,
    194693, 211912, 877502, 453478, 871817, 811585, 497126, 169199, 561811, 212941, 841733, 626492,
    511096, 477894, 7554, 363260, 457492, 151437, 485221, 310536, 354055, 834592, 174337, 794562,
    951903, 776353, 534532, 400200, 937472, 778826, 589748, 357973, 255874, 701513, 342717, 839662,
    91362, 796351, 457372, 664956, 63974, 819181, 330128, 999205, 415277, 834968, 947316, 145163,
    494039, 626038, 369613, 755984, 38761, 431224, 255585, 187925, 348767, 133984, 579096, 584224,
    442115, 777850, 771965, 127474, 683081, 844228, 29534, 895468, 427416, 788779, 47245, 108051,
    575059, 220926, 553332, 425638, 629881, 705496, 408781, 594737, 979787, 500056, 850773, 522370,
    2635, 842596, 603181, 638617, 498155, 18100, 921264, 414994, 836874, 399230, 235085, 295846,
    633231, 65236, 81760, 617979, 390333, 980574, 233202, 945721, 657245, 432211, 616590, 277497,
    814160, 548690, 994719, 420401, 9332, 250345, 858292, 850352, 193355, 688332, 402345, 102378,
    615419, 841831, 248150, 133701, 780773, 83569, 40526, 360516, 365938, 505357, 61868, 597466,
    498771, 792900, 778044, 208357, 862608, 145019, 146233, 831863, 339078, 65262, 272679, 914952,
    681534, 68791, 979382, 406900, 49226, 97392, 54242, 815715, 771697, 919240, 14435, 338172,
    719407, 215748, 5024, 612770, 739516, 138278, 143416, 438121, 259811, 111729, 814806, 405616,
    485292, 588076, 80161, 196055, 118355, 752414, 682229, 904910, 472593, 190152, 495451, 470475,
    534254, 878215, 156046, 406488, 149188, 381161, 781274, 78124, 268660, 449377, 826177, 926249,
    564660, 757202, 120824, 797113, 579207, 926304, 33205, 618407, 580294, 739840, 524062, 380022,
    160409, 528629, 784146, 483217, 609864, 515420, 62192, 359944, 85290, 55410, 22940, 44708,
    223613, 528848, 441192, 590938, 475099, 239815, 50383, 146425, 815563, 614571, 317797, 61533,
    55473, 962381, 561005, 107759, 198534, 172668, 781157, 461613, 150423, 396393, 852980, 276540,
    259315, 539482, 995557, 231563, 615540, 877612, 451281, 135886, 402629, 817897, 333111, 288420,
    711849, 52149, 943223, 946557, 573685, 528046, 921842, 921250, 644698, 779887, 316582, 686359,
    561755, 971019, 418850, 181152, 671034, 370778, 685024, 838159, 48874, 757971, 565874, 5100,
    518499, 288577, 850915, 970202, 753685, 661, 288087, 308688, 833744, 727557, 846032, 148927,
    849579, 684178, 821804, 863202, 412510, 965252, 799852, 904871, 611487, 720182, 410301, 115756,
    944368, 49083, 829547, 839509, 343874, 450923, 287129, 222795, 788004, 412052, 575977, 519489,
    65928, 164461, 311512, 776864, 119363, 716599, 750439, 772372, 276401, 846583, 41072, 408611,
    321921, 556656, 464241, 948074, 323312, 458504, 529209, 342636, 307722, 214752, 669987, 543880,
    136147, 930533, 194879, 384087, 353937, 516802, 415333, 818289, 192211, 662231, 798420, 812359,
    282689, 487531, 332471, 232670, 209244, 590354, 496020, 106177, 966274, 14177, 251281, 917465,
    255952, 786571, 69828, 412784, 520579, 895711, 356268, 732830, 802932, 51981, 420247, 249028,
    747920, 699503, 989719, 785677, 16148, 524638, 29409, 158903, 519412, 674267, 529663, 777938,
    983780, 438313, 909743, 5359, 313060, 411797, 880491, 851719, 421988, 835485, 433166, 749199,
    880810, 532507, 152365, 885875, 338886, 939400, 558566, 299092, 446689, 915844, 479754, 930520,
    299843, 484522, 800166, 898255, 144858, 475199, 195604, 265670, 126553, 416946, 172261, 451902,
    1900, 669207, 932862, 688335, 507970, 157673, 816633, 138635, 545006, 480037, 844488, 628648,
    303745, 342674, 127443, 968543, 721929, 440773, 570691, 806380, 857963, 264225, 517542, 803184,
    151369, 960525, 287797, 960171, 678664, 52042, 936529, 330748, 663463, 661091, 375446, 859709,
    296198, 815835, 830496, 51896, 477268, 576450, 21623, 316030, 292873, 703882, 412342, 111327,
    47296, 342680, 69177, 518715, 80999, 636322, 170074, 640326, 162075, 500325, 590594, 172823,
    141990, 249618, 727455, 438979, 195863, 810351, 563233, 802660, 372129, 98854, 493589, 938414,
    938018, 142474, 397077, 619608, 661153, 472997, 83809, 571449, 205823, 64382, 365777, 661363,
    817191, 142866, 482698, 353660, 917808, 684121, 499037, 406124, 82692, 191940, 301630, 971020,
    634525, 900538, 836571, 993069, 886840, 930767, 320879, 473583, 640988, 208491, 886798, 682524,
    949561, 194843, 260278, 828836, 970386, 376596, 230719, 270808, 209938, 134150, 818945, 804218,
    343056, 967307, 925972, 987185, 822993, 212301, 842959, 147467, 162511, 80290, 500498, 541278,
    906280, 665399, 223318, 550068, 559304, 668831, 529274, 548682, 247716, 265079, 793630, 640072,
    477814, 680559, 368837, 878878, 177087, 264129, 33002, 573291, 173975, 440772, 578688, 826235,
    916181, 816852, 554112, 993600, 478672, 973797, 160322, 892669, 759725, 190559, 901673, 60093,
    97373, 252023, 304199, 563331, 528476, 352077, 20176, 856259, 288691, 703191, 614729, 519613,
    422142, 737481, 768336, 305110, 962061, 721371, 990495, 535065, 935751, 796787, 784596, 395787,
    707810, 363554, 151292, 148294, 923877, 570311, 487651, 739388, 180386, 443616, 518821, 142289,
    727525, 607878, 380048, 894020, 962111, 188751, 9664, 742829, 979051, 176956, 792287, 961787,
    929387, 920849, 987041, 276884, 96259, 852954, 701979, 290322, 616094, 362768, 35975, 293967,
    818388, 259870, 376024, 632327, 262388, 327049, 617852, 30417, 190060, 454086, 227843, 445272,
    253875, 604728, 955545, 512854, 734715, 281761, 180014, 751615, 938870, 982605, 437628, 818299,
    1546, 7324, 247719, 987545, 418548, 981481, 350629, 395358, 378594, 748509, 346574, 782335,
    361010, 170109, 512931, 836885, 85942, 510337, 350284, 569161, 856856, 870064, 898701, 886700,
    460443, 319440, 917859, 787896, 580123, 483362, 249780, 502677, 218394, 564383, 949944, 91235,
    551729, 357036, 592951, 855545, 94152, 43959, 293244, 676500, 929726, 691149, 612629, 745904,
    366838, 660960, 23237, 916243, 888491, 796250, 44447, 352712, 115765, 710026, 74596, 133118,
    776385, 146611, 730282, 184818, 116939, 540481, 506654, 253606, 533616, 822536, 733411, 672374,
    833692, 399351, 205190, 359665, 871659, 468719, 437632, 419195, 604848, 696055, 812971, 487265,
    173891, 737705, 907768, 480573, 798694, 284511, 100205, 969093, 775365, 211733, 854715, 576301,
    470514, 24572, 26541, 969034, 394134, 528004, 413122, 151979, 632051, 238799, 195904, 195276,
    637414, 258689, 147670, 689054, 486582, 885380, 112826, 687021, 905873, 150371, 83117, 56079,
    267681, 336254, 384610, 441475, 868358, 326289, 895475, 679169, 157693, 9412, 242775, 243431,
    660826, 831099, 705281, 607841, 596051, 631119, 890241, 427032, 135134, 393291, 238958, 613243,
    230502, 679256, 553786, 865570, 597516, 754905, 768003, 655059, 456352, 11301, 769216, 149661,
    324999, 557468, 103932, 834026, 751203, 685106, 873571, 632442, 460238, 184581, 756109, 102914,
    317419, 276059, 895906, 462848, 24254, 804464, 260554, 978935, 568815, 373987, 421713, 612434,
    781320, 917420, 175560, 519565, 891860, 861550, 628044, 268216, 660018, 218889, 520989, 245150,
    617322, 663745, 468336, 618866, 611102, 783978, 318446, 592664, 55498, 888730, 754054, 114597,
    323662, 952620, 567531, 129940, 502858, 30355, 516601, 348461, 928074, 574524, 869732, 869083,
    751364, 68085, 924121, 701898, 575650, 955626, 242382, 932729, 284106, 69920, 756962, 904639,
    749228, 387836, 140402, 917765, 718587, 201891, 338244, 261141, 635994, 934947, 319559, 141549,
    138280, 561436, 742227, 975930, 685684, 929517, 109996, 528960, 576692, 902375, 156944, 590409,
    448803, 889295, 629809, 123199, 677253, 251677, 872430, 927829, 315919, 745350, 197228, 428075,
    734604, 617827, 159196, 518171, 57870, 88885, 681273, 632587, 714804, 929992, 722909, 546644,
    442856, 683108, 28173, 883141, 598059, 538970, 345224, 278100, 73762, 327449, 987152, 257973,
    224135, 730585, 218025, 76356, 463205, 484245, 634730, 56325, 351052, 776173, 58718, 372355,
    542787, 338329, 959467, 668214, 693925, 781204, 44378, 174162, 99216, 401748, 163094, 317808,
    56617, 975561, 995836, 753324, 795181, 445228, 322735, 140553, 870205, 717231, 612495, 79931,
    448058, 447105, 569766, 83632, 452665, 64854, 999556, 397964, 680397, 343076, 123863, 755049,
    935603, 648533, 994787, 570790, 262282, 704813, 765586, 41323, 503405, 866105, 186286, 118523,
    860507, 120482, 430834, 957788, 723274, 347885, 244044, 280309, 234905, 732179, 748502, 316325,
    995973, 890135, 887357, 686145, 38732, 358778, 112025, 819482, 130571, 631492, 18499, 613361,
    309343, 755558, 725531, 355746, 64982, 818507, 872665, 562318, 945790, 345986, 231987, 177515,
    234858, 688087, 711962, 75678, 538752, 867432, 608285, 306194, 789914, 707921, 322627, 797510,
    660797, 496052, 391055, 353978, 547867, 361948, 987607, 370615, 321818, 220700, 364576, 171026,
    987244, 662078, 546662, 68972, 590228, 65121, 717606, 922590, 677374, 380541, 110950, 91847,
    389364, 208750, 509012, 494463, 445188, 527813, 342181, 920811, 320809, 737909, 858687, 421194,
    629386, 375527, 280798, 257803, 455531, 488181, 686575, 712808, 966020, 885377, 592171, 486769,
    951215, 869059, 761966, 964751, 776376, 392319, 702535, 583763, 755243, 681249, 935386, 794791,
    771729, 721845, 694133, 66690, 589546, 919863, 101477, 567490, 665978, 566019, 76890, 546805,
    384754, 145694, 322202, 845572, 571816, 865231, 165917, 23861, 756789, 424391, 259086, 999065,
    829885, 405864, 490284, 724078, 693376, 554284, 834481, 626306, 401265, 258679, 120850, 146809,
    362324, 359811, 849733, 913885, 382915, 470188, 296252, 962552, 619862, 576388, 975978, 101085,
    77853, 352673, 642585, 744606, 908211, 942849, 619682, 713686, 714991, 151803, 169861, 997263,
    39195, 80042, 593129, 829902, 903373, 48793, 598308, 554817, 884655, 405526, 702165, 852628,
    897479, 540482, 104120, 719897, 854941, 536955, 113974, 964365, 81359, 77433, 755042, 151887
  >>

\* Resolution of the tabulated draws: a draw r in [0,1) is held as floor(r * SCALE).
SCALE == 1000000

\* random(): the value drawn at seed counter `seed`; the caller advances the
\* counter by one (this.seed++).
random(seed) == SinTable[seed + 1]

\* A probability given in percent, in units of 1/SCALE (r < p  <=>  floor(r*SCALE) < p*SCALE).
Prob(pct) == pct * (SCALE \div 100)

\* randomInt(min, max) = Math.floor(random() * (max - min + 1)) + min
randomInt(seed, min, max) == ((random(seed) * (max - min + 1)) \div SCALE) + min

\* choice(arr) = arr[randomInt(0, arr.length - 1)]   (arr is 1-based here)
choice(seed, arr) == arr[randomInt(seed, 0, Len(arr) - 1) + 1]

\* The three methods as calls on a generator whose counter is `seed`: the value
\* returned and the counter after the call.
drawRandom(seed) == [value |-> random(seed), seed |-> seed + 1]

\* randomInt calling random() once for the value and once more
drawRandomIntTwice(seed, min, max) ==
  [value |-> randomInt(seed, min, max), seed |-> drawRandom(drawRandom(seed).seed).seed]

\* randomInt calls random() once
drawRandomInt(seed, min, max) ==
  [value |-> randomInt(seed, min, max), seed |-> drawRandom(seed).seed]

\* choice calls randomInt once
drawChoice(seed, arr) ==
  [value |-> choice(seed, arr), seed |-> drawRandomInt(seed, 0, Len(arr) - 1).seed]

(***************************************************************************)
(* Individuals.  An individual is an object (objs[id]) with a reference to *)
(* its gene array (bufs[id]) and its cached fitness.  m is the part of the *)
(* machine an operation works on: the stream's seed counter, the objects,  *)
(* the arrays, and the next free object id.                                *)
(***************************************************************************)

\* fitness: number | null = null
NullFitness == -1

\* Array.from({ length }, ...) has max(length, 0) elements
ArrayLength(length) == IF length > 0 THEN length ELSE 0

RECURSIVE SumSeq(_)
SumSeq(s) == IF s = <<>> THEN 0 ELSE Head(s) + SumSeq(Tail(s))

\* new BinaryIndividual(length, rng): one draw per gene, rng.random() < 0.5 ? 0 : 1
BinaryGenome(length, seed) ==
  [k \in 1..ArrayLength(length) |-> IF random(seed + k - 1) < Prob(50) THEN 0 ELSE 1]

Alloc(m, genome, fitness) ==
  LET id == m.next IN
  [ref |-> id,
   m   |-> [seed |-> m.seed,
            objs |-> (id :> [genome |-> id, fitness |-> fitness]) @@ m.objs,
            bufs |-> (id :> genome) @@ m.bufs,
            next |-> id + 1]]

NewBinaryIndividual(m, length) ==
  Alloc([m EXCEPT !.seed = m.seed + ArrayLength(length)],
        BinaryGenome(length, m.seed), NullFitness)

\* The genes of individual o
Genes(m, o) == m.bufs[m.objs[o].genome]

\* copy() with ind.genome = this.genome: the gene array is shared with the source
copyShared(m, o) ==
  LET id == m.next IN
  [ref |-> id,
   m   |-> [seed |-> m.seed,
            objs |-> (id :> [genome |-> m.objs[o].genome, fitness |-> m.objs[o].fitness])
                     @@ m.objs,
            bufs |-> m.bufs,
            next |-> id + 1]]

\* copy(): ind.genome = [...this.genome]; ind.fitness = this.fitness
copy(m, o) == Alloc(m, Genes(m, o), m.objs[o].fitness)

(***************************************************************************)
(* Fitness functions (minimisation)                                        *)
(***************************************************************************)
FitnessNames == {"onemax", "trap", "sphere", "rastrigin"}

\* The count of 1 genes itself (the maximisation form)
onemaxCountsOnes(genome) == SumSeq(genome)

onemax(genome) == Len(genome) - SumSeq(genome)

\* The deceptive slope without its offset: n - ones
trapWithoutOffset(genome) ==
  LET ones == SumSeq(genome)
      n    == Len(genome)
  IN  IF ones = 0 THEN 0
      ELSE IF ones = n THEN 1
      ELSE n - ones

trap(genome) ==
  LET ones == SumSeq(genome)
      n    == Len(genome)
  IN  IF ones = 0 THEN 0
      ELSE IF ones = n THEN 1
      ELSE n - ones + 1

isBinary(config) ==
  config.fitnessFunction = "onemax" \/ config.fitnessFunction = "trap"

\* evaluate(ind) = FitnessFunctions[this.config.fitnessFunction](ind)
evaluate(config, genome) ==
  CASE config.fitnessFunction = "onemax" -> onemax(genome)
    [] config.fitnessFunction = "trap"   -> trap(genome)

(***************************************************************************)
(* Variation operators (bit vector)                                        *)
(***************************************************************************)
\* The child spliced from two slices, the second starting one gene late
binaryCrossoverSliced(m, p1, p2) ==
  LET len == Len(Genes(m, p1))
      cut == randomInt(m.seed, 1, len - 1)
      c   == copy([m EXCEPT !.seed = m.seed + 1], p1)
      cb  == c.m.objs[c.ref].genome
  IN  [ref |-> c.ref,
       cut |-> cut,
       m   |-> [c.m EXCEPT !.bufs[cb] =
                  SubSeq(Genes(c.m, p1), 1, cut) \o SubSeq(Genes(c.m, p2), cut + 2, len)]]

binaryCrossover(m, p1, p2) ==
  LET len == Len(Genes(m, p1))
      cut == randomInt(m.seed, 1, len - 1)
      c   == copy([m EXCEPT !.seed = m.seed + 1], p1)
      cb  == c.m.objs[c.ref].genome
  IN  [ref |-> c.ref,
       cut |-> cut,
       m   |-> [c.m EXCEPT !.bufs[cb] =
                  [k \in 1..len |-> IF k - 1 >= cut THEN Genes(c.m, p2)[k]
                                                    ELSE c.m.bufs[cb][k]]]]

\* The mutation adding 1 to a selected gene instead of flipping it
binaryMutateIncrements(m, ind, rate) ==
  LET b   == m.objs[ind].genome
      len == Len(m.bufs[b])
  IN  [m EXCEPT !.seed = m.seed + len,
                !.bufs[b] = [k \in 1..len |->
                               IF random(m.seed + k - 1) < Prob(rate)
                               THEN m.bufs[b][k] + 1 ELSE m.bufs[b][k]]]

binaryMutate(m, ind, rate) ==
  LET b   == m.objs[ind].genome
      len == Len(m.bufs[b])
  IN  [m EXCEPT !.seed = m.seed + len,
                !.bufs[b] = [k \in 1..len |->
                               IF random(m.seed + k - 1) < Prob(rate)
                               THEN 1 - m.bufs[b][k] ELSE m.bufs[b][k]]]

(***************************************************************************)
(* TopologyManager                                                         *)
(***************************************************************************)
\* Layout positions.  The coordinates are floating-point values of cos, sin and
\* quotients; a position is written as the quantities they are computed from:
\*   ring: angle = (col / of) * 2 * PI - PI / 2 on the circle of the canvas,
\*   grid: x = offsetX + col * cellSize + cellSize / 2, y likewise from row,
\*         with cellSize the smaller canvas side less padding, divided by `of'.
ringPositions(popSize) ==
  [c \in 1..ArrayLength(popSize) |->
     [layout |-> "ring", row |-> 0, col |-> c - 1, of |-> popSize]]

\* The two ids without the wrap at the ends: i - 1 and i + 1
buildRingNoWrap(popSize) ==
  [c \in 1..ArrayLength(popSize) |-> << (c - 1) - 1, (c - 1) + 1 >>]

buildRing(popSize) ==
  [c \in 1..ArrayLength(popSize) |->
     << ((c - 1) - 1 + popSize) % popSize, ((c - 1) + 1) % popSize >>]

\* Math.ceil(Math.sqrt(n)) for n >= 0
CeilSqrt(n) == CHOOSE s \in 0..n : s * s >= n /\ (s = 0 \/ (s - 1) * (s - 1) < n)

\* (dr, dc) in the order of the two nested loops, (0, 0) skipped
MooreOffsets ==
  << <<-1, -1>>, <<-1, 0>>, <<-1, 1>>, <<0, -1>>, <<0, 1>>, <<1, -1>>, <<1, 0>>, <<1, 1>> >>

\* The neighborhood cut at the border instead of wrapped
GridNeighborsNoWrap(i, gridSize, popSize) ==
  LET row == i \div gridSize
      col == i % gridSize
      ok  == SelectSeq(MooreOffsets,
                       LAMBDA o : /\ row + o[1] >= 0 /\ row + o[1] < gridSize
                                  /\ col + o[2] >= 0 /\ col + o[2] < gridSize)
      idx == [k \in 1..Len(ok) |-> (row + ok[k][1]) * gridSize + (col + ok[k][2])]
  IN  SelectSeq(idx, LAMBDA x : x < popSize)

GridNeighbors(i, gridSize, popSize) ==
  LET row == i \div gridSize
      col == i % gridSize
      idx == [k \in 1..8 |->
                ((row + MooreOffsets[k][1] + gridSize) % gridSize) * gridSize
                + ((col + MooreOffsets[k][2] + gridSize) % gridSize)]
  IN  SelectSeq(idx, LAMBDA x : x < popSize)

gridPositions(popSize) ==
  [c \in 1..ArrayLength(popSize) |->
     [layout |-> "grid", row |-> (c - 1) \div CeilSqrt(popSize),
      col |-> (c - 1) % CeilSqrt(popSize), of |-> CeilSqrt(popSize)]]

buildGrid(popSize) ==
  [c \in 1..ArrayLength(popSize) |-> GridNeighbors(c - 1, CeilSqrt(popSize), popSize)]

Includes(row, v) == \E k \in 1..Len(row) : row[k] = v

\* do { newNeighbor = randomInt(0, popSize - 1) } while (newNeighbor === i || rewired[i].includes(newNeighbor))
\* The loop condition with the membership test left out
DrawnAgainSelfOnly(i, row, newNeighbor) == newNeighbor = i

\* The condition of the do-while loop: the drawn id is rejected
DrawnAgain(i, row, newNeighbor) == newNeighbor = i \/ Includes(row, newNeighbor)

\* The rewiring test with the comparison turned round
ShouldRewireInverted(seed, rewiringProb) == random(seed) >= Prob(rewiringProb)

\* this.rng.random() < this.rewiringProb
ShouldRewire(seed, rewiringProb) == random(seed) < Prob(rewiringProb)

RECURSIVE DrawNewNeighbor(_, _, _, _)
DrawNewNeighbor(seed, i, row, popSize) ==
  LET newNeighbor == randomInt(seed, 0, popSize - 1) IN
  IF DrawnAgain(i, row, newNeighbor)
  THEN DrawNewNeighbor(seed + 1, i, row, popSize)
  ELSE [value |-> newNeighbor, seed |-> seed + 1]

\* The do-while loop can end only if some cell id is neither i nor in the list.
CanRewire(i, row, popSize) ==
  \E v \in 0..(popSize - 1) : v # i /\ ~Includes(row, v)

\* The two nested loops of buildSmallWorld, slot = 2 * i + j (every ring list
\* has two entries).  hang: the do-while loop never ends.
RECURSIVE Rewire(_, _, _, _, _)
Rewire(rewired, slot, seed, popSize, rewiringProb) ==
  IF slot >= 2 * ArrayLength(popSize)
  THEN [neighbors |-> rewired, seed |-> seed, hang |-> FALSE]
  ELSE LET i == slot \div 2
           j == slot % 2
       IN  IF ShouldRewire(seed, rewiringProb)
           THEN IF ~CanRewire(i, rewired[i + 1], popSize)
                THEN [neighbors |-> rewired, seed |-> seed + 1, hang |-> TRUE]
                ELSE LET d == DrawNewNeighbor(seed + 1, i, rewired[i + 1], popSize)
                     IN  Rewire([rewired EXCEPT ![i + 1][j + 1] = d.value],
                                slot + 1, d.seed, popSize, rewiringProb)
           ELSE Rewire(rewired, slot + 1, seed + 1, popSize, rewiringProb)

buildSmallWorld(popSize, rewiringProb, seed) ==
  Rewire(buildRing(popSize), 0, seed, popSize, rewiringProb)

\* The switch with the ring as its default case
buildTopologyDefaultRing(popSize, topology, rewiringProb, seed) ==
  CASE topology = "grid"       -> [neighbors |-> buildGrid(popSize), seed |-> seed, hang |-> FALSE]
    [] topology = "smallworld" -> buildSmallWorld(popSize, rewiringProb, seed)
    [] OTHER                   -> [neighbors |-> buildRing(popSize), seed |-> seed, hang |-> FALSE]

buildTopology(popSize, topology, rewiringProb, seed) ==
  CASE topology = "ring"       -> [neighbors |-> buildRing(popSize), seed |-> seed, hang |-> FALSE]
    [] topology = "grid"       -> [neighbors |-> buildGrid(popSize), seed |-> seed, hang |-> FALSE]
    [] topology = "smallworld" -> buildSmallWorld(popSize, rewiringProb, seed)
    [] OTHER                   -> [neighbors |-> buildGrid(popSize), seed |-> seed, hang |-> FALSE]

\* this.positions after buildTopology(): buildSmallWorld() calls buildRing()
buildPositions(popSize, topology) ==
  IF topology \in {"ring", "smallworld"} THEN ringPositions(popSize)
                                          ELSE gridPositions(popSize)

\* The lookup taking the index modulo the number of cells
getNeighborsWrapped(neighbors, index) ==
  IF neighbors = <<>> THEN <<>> ELSE neighbors[(index % Len(neighbors)) + 1]

\* getNeighbors(index) = this.neighbors[index] || []
getNeighbors(neighbors, index) ==
  IF index + 1 \in DOMAIN neighbors THEN neighbors[index + 1] ELSE <<>>

\* { x: 0, y: 0 }
Origin == [layout |-> "origin", row |-> 0, col |-> 0, of |-> 0]

\* getPosition(index) = this.positions[index] || { x: 0, y: 0 }
getPosition(positions, index) ==
  IF index + 1 \in DOMAIN positions THEN positions[index + 1] ELSE Origin

(***************************************************************************)
(* CellularGA                                                              *)
(***************************************************************************)

\* An unset local or field holding an individual (object ids start at 1)
NoRef == 0

NoSelection == [a |-> NoRef, b |-> NoRef]

\* Math.min() of no arguments
Infinity == 2147483647

\* history.best.length > 300
HistoryCap == 300

\* FitnessFunctions[this.config.fitnessFunction] is undefined: calling it throws
evaluateThrows(config) == config.fitnessFunction \notin FitnessNames

\* The loop of initPopulation() from cell i on.  thrown: evaluate() threw.
RECURSIVE initPopulation(_, _, _, _)
initPopulation(config, m, population, i) ==
  IF i >= config.popSize
  THEN [thrown |-> FALSE, m |-> m, population |-> population]
  ELSE IF isBinary(config)
       THEN LET n   == NewBinaryIndividual(m, config.genomeLength)
                fit == evaluate(config, Genes(n.m, n.ref))
            IN  initPopulation(config, [n.m EXCEPT !.objs[n.ref].fitness = fit],
                               Append(population, n.ref), i + 1)
       ELSE \* new RealVectorIndividual draws genomeLength values, then evaluate()
            [thrown     |-> evaluateThrows(config),
             m          |-> [m EXCEPT !.seed = m.seed + ArrayLength(config.genomeLength)],
             population |-> population]

EmptyHistory == [best |-> <<>>, avg |-> <<>>]

\* One generator for every engine (a module-level instance)
SharedRng(e) == 1

\* The generator of engine e: this.rng = new SeededRandom(config.seed)
RngOf(e) == e

Engine(status, config, e, population, neighbors, positions, m) ==
  [status        |-> status,
   config        |-> config,
   rng           |-> RngOf(e),
   generation    |-> 0,
   population    |-> population,
   history       |-> EmptyHistory,
   neighbors     |-> neighbors,
   positions     |-> positions,
   objs          |-> m.objs,
   bufs          |-> m.bufs,
   next          |-> m.next,
   pc            |-> "idle",
   i             |-> 0,
   newPopulation |-> <<>>,
   parent1       |-> NoRef,
   parent2       |-> NoRef,
   child         |-> NoRef,
   cut           |-> 0,
   sel1          |-> NoSelection,
   sel2          |-> NoSelection]

EmptyMachine(seed) == [seed |-> seed, objs |-> <<>>, bufs |-> <<>>, next |-> 1]

\* new CellularGA(config) as engine e.  status "ready": the constructor returned;
\* "TypeError": it threw; "hang": it never returns.  seed: the generator's counter
\* when the constructor stops.
Construct(config, e) ==
  LET p == initPopulation(config, EmptyMachine(config.seed), <<>>, 0)
      t == buildTopology(config.popSize, config.topology, config.rewiringProb, p.m.seed)
  IN  IF p.thrown
      THEN [engine |-> Engine("TypeError", config, e, <<>>, <<>>, <<>>, EmptyMachine(0)),
            seed   |-> p.m.seed]
      ELSE IF t.hang
      THEN [engine |-> Engine("hang", config, e, <<>>, <<>>, <<>>, EmptyMachine(0)),
            seed   |-> t.seed]
      ELSE [engine |-> Engine("ready", config, e, p.population, t.neighbors,
                              buildPositions(config.popSize, config.topology), p.m),
            seed   |-> t.seed]

\* No engine has been constructed in this slot
NoConfig ==
  [popSize |-> 0, genomeLength |-> 0, mutationRate |-> 0, crossoverRate |-> 0,
   rewiringProb |-> 0, topology |-> "none", fitnessFunction |-> "none", seed |-> 0]

NoEngine(e) == Engine("absent", NoConfig, e, <<>>, <<>>, <<>>, EmptyMachine(0))

\* The machine engine g works on
Machine(g) == [seed |-> rngs[g.rng], objs |-> g.objs, bufs |-> g.bufs, next |-> g.next]

\* tournamentSelection with a.fitness <= b.fitness ? a : b
tournamentSelectionTiesFirst(g, m, indices) ==
  LET a == g.population[choice(m.seed, indices) + 1]
      b == g.population[choice(m.seed + 1, indices) + 1]
      w == IF m.objs[a].fitness <= m.objs[b].fitness THEN a ELSE b
      c == copy([m EXCEPT !.seed = m.seed + 2], w)
  IN  [ref |-> c.ref, m |-> c.m, a |-> a, b |-> b]

\* tournamentSelection(indices): a and b are its two locals
tournamentSelection(g, m, indices) ==
  LET a == g.population[choice(m.seed, indices) + 1]
      b == g.population[choice(m.seed + 1, indices) + 1]
      w == IF m.objs[a].fitness < m.objs[b].fitness THEN a ELSE b
      c == copy([m EXCEPT !.seed = m.seed + 2], w)
  IN  [ref |-> c.ref, m |-> c.m, a |-> a, b |-> b]

\* Replacement without the comparison: the child always takes the cell
ReplacesAlways(childFitness, incumbentFitness) == TRUE

\* child.fitness <= this.population[i].fitness
ReplacesOrEqual(childFitness, incumbentFitness) == childFitness <= incumbentFitness

\* child.fitness < this.population[i].fitness
Replaces(childFitness, incumbentFitness) == childFitness < incumbentFitness

\* The iteration with both tournaments drawing from the whole population
evolveCellGlobal(g, m) ==
  LET neighbors == [k \in 1..Len(g.population) |-> k - 1]
      s1   == tournamentSelection(g, m, neighbors)
      s2   == tournamentSelection(g, s1.m, neighbors)
      c    == binaryCrossover(s2.m, s1.ref, s2.ref)
      mm   == binaryMutate(c.m, c.ref, g.config.mutationRate)
      fit  == evaluate(g.config, Genes(mm, c.ref))
      me   == [mm EXCEPT !.objs[c.ref].fitness = fit]
      inc  == g.population[g.i + 1]
  IN  [m       |-> me,
       parent1 |-> s1.ref,
       parent2 |-> s2.ref,
       child   |-> c.ref,
       cut     |-> c.cut,
       sel1    |-> [a |-> s1.a, b |-> s1.b],
       sel2    |-> [a |-> s2.a, b |-> s2.b],
       slot    |-> IF Replaces(fit, me.objs[inc].fitness) THEN c.ref ELSE inc]

\* One iteration of the loop of evolve(), for cell g.i
evolveCell(g, m) ==
  LET neighbors == getNeighbors(g.neighbors, g.i) \o <<g.i>>
      s1   == tournamentSelection(g, m, neighbors)
      s2   == tournamentSelection(g, s1.m, neighbors)
      c    == binaryCrossover(s2.m, s1.ref, s2.ref)
      mm   == binaryMutate(c.m, c.ref, g.config.mutationRate)
      fit  == evaluate(g.config, Genes(mm, c.ref))
      me   == [mm EXCEPT !.objs[c.ref].fitness = fit]
      inc  == g.population[g.i + 1]
  IN  [m       |-> me,
       parent1 |-> s1.ref,
       parent2 |-> s2.ref,
       child   |-> c.ref,
       cut     |-> c.cut,
       sel1    |-> [a |-> s1.a, b |-> s1.b],
       sel2    |-> [a |-> s2.a, b |-> s2.b],
       slot    |-> IF Replaces(fit, me.objs[inc].fitness) THEN c.ref ELSE inc]

Range(s) == {s[k] : k \in DOMAIN s}

\* Objects no longer referenced are dropped
Collect(g) ==
  LET live == (Range(g.population) \cup Range(g.newPopulation)
               \cup {g.parent1, g.parent2, g.child}) \cap DOMAIN g.objs
  IN  [g EXCEPT !.objs = [o \in live |-> g.objs[o]],
                !.bufs = [b \in {g.objs[o].genome : o \in live} |-> g.bufs[b]]]

\* The iteration writing its result into this.population[i] as well
AfterCellInPlace(g, r) ==
  Collect([g EXCEPT !.objs = r.m.objs, !.bufs = r.m.bufs, !.next = r.m.next,
                    !.newPopulation = Append(g.newPopulation, r.slot),
                    !.population[g.i + 1] = r.slot,
                    !.parent1 = r.parent1, !.parent2 = r.parent2, !.child = r.child,
                    !.cut = r.cut,
                    !.sel1 = r.sel1, !.sel2 = r.sel2,
                    !.i = g.i + 1])

\* The iteration with the candidate list made by getNeighbors(i).push(i), which
\* appends i to the stored list
AfterCellPushesSelf(g, r) ==
  Collect([g EXCEPT !.objs = r.m.objs, !.bufs = r.m.bufs, !.next = r.m.next,
                    !.newPopulation = Append(g.newPopulation, r.slot),
                    !.neighbors[g.i + 1] = Append(g.neighbors[g.i + 1], g.i),
                    !.parent1 = r.parent1, !.parent2 = r.parent2, !.child = r.child,
                    !.cut = r.cut,
                    !.sel1 = r.sel1, !.sel2 = r.sel2,
                    !.i = g.i + 1])

\* The engine after the iteration: newPopulation[i] = ...; i++
AfterCell(g, r) ==
  Collect([g EXCEPT !.objs = r.m.objs, !.bufs = r.m.bufs, !.next = r.m.next,
                    !.newPopulation = Append(g.newPopulation, r.slot),
                    !.parent1 = r.parent1, !.parent2 = r.parent2, !.child = r.child,
                    !.cut = r.cut,
                    !.sel1 = r.sel1, !.sel2 = r.sel2,
                    !.i = g.i + 1])

Fitnesses(g, population) == [k \in DOMAIN population |-> g.objs[population[k]].fitness]

\* Math.min(...fitnesses)
MinOf(fitnesses) ==
  IF fitnesses = <<>> THEN Infinity
  ELSE CHOOSE f \in Range(fitnesses) : \A h \in Range(fitnesses) : f <= h

\* fitnesses.reduce((a, b) => a + b, 0) / fitnesses.length, as the fraction num/den
\* (0/0 is NaN)
AvgOf(fitnesses) == [num |-> SumSeq(fitnesses), den |-> Len(fitnesses)]

\* push, then pop (the newest entry is dropped) when longer than the cap
PushCappedDropNewest(h, v) ==
  IF Len(h) + 1 > HistoryCap THEN h ELSE Append(h, v)

\* push, then shift when longer than the cap
PushCapped(h, v) ==
  IF Len(h) + 1 > HistoryCap THEN Tail(Append(h, v)) ELSE Append(h, v)

updateHistory(g) ==
  LET fitnesses == Fitnesses(g, g.population) IN
  [g EXCEPT !.history = [best |-> PushCapped(g.history.best, MinOf(fitnesses)),
                         avg  |-> PushCapped(g.history.avg, AvgOf(fitnesses))]]

\* The loop bound one short: i < popSize - 1
LoopDoneEarly(g) == g.i >= g.config.popSize - 1

\* The loop of evolve() has processed every cell
LoopDone(g) == g.i >= g.config.popSize

\* The end of evolve() with the history updated twice
AfterLoopRecordedTwice(g) ==
  Collect(updateHistory(updateHistory(
    [g EXCEPT !.population = g.newPopulation,
              !.generation = g.generation + 1,
              !.newPopulation = <<>>,
              !.parent1 = NoRef, !.parent2 = NoRef, !.child = NoRef,
              !.cut = 0,
              !.sel1 = NoSelection, !.sel2 = NoSelection,
              !.pc = "idle"])))

\* The end of evolve() with the history updated before newPopulation is installed
AfterLoopHistoryFirst(g) ==
  Collect([updateHistory(g) EXCEPT !.population = g.newPopulation,
                                   !.generation = g.generation + 1,
                                   !.newPopulation = <<>>,
                                   !.parent1 = NoRef, !.parent2 = NoRef, !.child = NoRef,
                                   !.cut = 0,
                                   !.sel1 = NoSelection, !.sel2 = NoSelection,
                                   !.pc = "idle"])

\* this.population = newPopulation; this.generation++; this.updateHistory()
AfterLoop(g) ==
  Collect(updateHistory([g EXCEPT !.population = g.newPopulation,
                                  !.generation = g.generation + 1,
                                  !.newPopulation = <<>>,
                                  !.parent1 = NoRef, !.parent2 = NoRef, !.child = NoRef,
                                  !.cut = 0,
                                  !.sel1 = NoSelection, !.sel2 = NoSelection,
                                  !.pc = "idle"]))

(***************************************************************************)
(* Bounds and configurations                                               *)
(***************************************************************************)
MaxPop == 4
MaxLen == 3
MaxGen == 4
MaxGenLong == 302

EngineIds == {1, 2}

Topologies == {"ring", "grid", "smallworld", "hexagonal"}
FitnessIds == {"onemax", "trap", "bogus"}
Rates == {0, 50}
CrossoverRates == {0, 80}
RewiringProbs == {0, 50, 100}
Seeds == {1, 2}

Configs ==
  [popSize : (-1)..MaxPop, genomeLength : (-1)..MaxLen, mutationRate : Rates,
   crossoverRate : CrossoverRates, rewiringProb : RewiringProbs,
   topology : Topologies, fitnessFunction : FitnessIds, seed : Seeds]

\* The simulator component is not mounted
NoDriver ==
  [mounted |-> FALSE, config |-> NoConfig, gaRef |-> 0, isRunning |-> FALSE,
   animationRef |-> 0, frames |-> {}, timeouts |-> <<>>, control |-> "none"]

\* No TopologyManager has been built outside an engine
NoManager ==
  [status |-> "absent", popSize |-> 0, topology |-> "none", rewiringProb |-> 0,
   neighbors |-> <<>>, positions |-> <<>>, i |-> 0, j |-> 0, pc |-> "done"]

\* A call of method op on object `on' with its arguments and the value returned
\* (<<>> where nothing is returned)
Call(op, on, args, result) == [op |-> op, on |-> on, args |-> args, result |-> result]

\* Nothing has been called since the objects were constructed
NoCall == Call("new", 0, <<>>, <<>>)

(***************************************************************************)
(* Specification                                                           *)
(***************************************************************************)
Init ==
  \E config \in Configs :
    LET c == Construct(config, 1) IN
    /\ engines = (1 :> c.engine) @@ (2 :> NoEngine(2))
    /\ rngs = (RngOf(1) :> c.seed)
    /\ driver = NoDriver
    /\ tm = NoManager
    /\ call = NoCall

\* evolve() is synchronous: it is entered only while no engine is inside it
NoneEvolving == \A e \in EngineIds : engines[e].pc = "idle"

EvolveBegin(e, maxGen) ==
  /\ engines[e].status = "ready"
  /\ NoneEvolving
  /\ engines[e].generation < maxGen
  /\ engines' = [engines EXCEPT ![e].pc = "loop", ![e].i = 0, ![e].newPopulation = <<>>]
  /\ call' = Call("evolve", e, <<>>, <<>>)
  /\ UNCHANGED <<rngs, tm, driver>>

EvolveStart(e) == EvolveBegin(e, MaxGen)

EvolveCell(e) ==
  LET g == engines[e] IN
  /\ g.pc = "loop"
  /\ ~LoopDone(g)
  /\ LET r == evolveCell(g, Machine(g)) IN
     /\ engines' = [engines EXCEPT ![e] = AfterCell(g, r)]
     /\ rngs' = [rngs EXCEPT ![g.rng] = r.m.seed]
     /\ UNCHANGED <<tm, call, driver>>

EvolveFinish(e) ==
  LET g == engines[e] IN
  /\ g.pc = "loop"
  /\ LoopDone(g)
  /\ engines' = [engines EXCEPT ![e] = AfterLoop(g)]
  /\ UNCHANGED <<rngs, tm, call, driver>>

Next ==
  \E e \in EngineIds :
    \/ EvolveStart(e)
    \/ EvolveCell(e)
    \/ EvolveFinish(e)

Spec == Init /\ [][Next]_vars

(***************************************************************************)
(* Two engines built from the same configuration, stepped independently    *)
(***************************************************************************)
TwinConfigs ==
  {c \in Configs : /\ c.popSize >= 1
                   /\ c.genomeLength >= 2
                   /\ c.fitnessFunction \in {"onemax", "trap"}
                   /\ c.crossoverRate = 80
                   /\ c.seed = 1}

InitTwin ==
  \E config \in TwinConfigs :
    LET c1 == Construct(config, 1)
        c2 == Construct(config, 2)
    IN  /\ engines = (1 :> c1.engine) @@ (2 :> c2.engine)
        /\ rngs = (RngOf(2) :> c2.seed) @@ (RngOf(1) :> c1.seed)
        /\ driver = NoDriver
        /\ tm = NoManager
        /\ call = NoCall

SpecTwin == InitTwin /\ [][Next]_vars

(***************************************************************************)
(* Long runs of small engines, past the history cap                        *)
(***************************************************************************)
LongConfigs ==
  {c \in Configs : /\ c.popSize \in {0, 1, 2}
                   /\ c.genomeLength \in {1, 2}
                   /\ c.fitnessFunction \in {"onemax", "trap"}
                   /\ c.topology \in {"ring", "grid"}
                   /\ c.crossoverRate = 80
                   /\ c.rewiringProb = 0
                   /\ c.seed = 1}

InitLong ==
  \E config \in LongConfigs :
    LET c == Construct(config, 1) IN
    /\ engines = (1 :> c.engine) @@ (2 :> NoEngine(2))
    /\ rngs = (RngOf(1) :> c.seed)
    /\ driver = NoDriver
    /\ tm = NoManager
    /\ call = NoCall

EvolveStartLong(e) == EvolveBegin(e, MaxGenLong)

NextLong ==
  \E e \in EngineIds :
    \/ EvolveStartLong(e)
    \/ EvolveCell(e)
    \/ EvolveFinish(e)

SpecLong == InitLong /\ [][NextLong]_vars

(***************************************************************************)
(* The fitness functions applied to bit vectors                            *)
(***************************************************************************)
MaxBits == 5

BitVectors == UNION {[1..n -> {0, 1}] : n \in 0..MaxBits}

NoRngs == (RngOf(1) :> 0)

InitFitness ==
  /\ engines = [e \in EngineIds |-> NoEngine(e)]
  /\ rngs = NoRngs
  /\ driver = NoDriver
  /\ tm = NoManager
  /\ call = NoCall

\* FitnessFunctions[name](individual) for an individual with the given genome
Evaluate(name, genome) ==
  /\ call' = Call(name, 0, <<genome>>, evaluate([fitnessFunction |-> name], genome))
  /\ UNCHANGED <<engines, rngs, tm, driver>>

NextFitness ==
  \E name \in {"onemax", "trap"}, genome \in BitVectors : Evaluate(name, genome)

SpecFitness == InitFitness /\ [][NextFitness]_vars

(***************************************************************************)
(* A SeededRandom generator called on its own                              *)
(***************************************************************************)
MaxDraws == 6

StreamSeeds == {0, 1, 2, 100}
IntArgs == (-1)..3
Arrays == { <<7>>, <<3, 5>>, <<4, 4, 9>>, <<0, 1, 2, 3>> }

\* A call on the generator; first is the seed it was constructed with and count
\* the number of calls made on it so far.
Draw(op, args, d) ==
  [op |-> op, on |-> RngOf(1), args |-> args, result |-> d.value,
   first |-> call.first, count |-> call.count + 1]

\* new SeededRandom(seed)
InitStream ==
  \E seed \in StreamSeeds :
    /\ engines = [e \in EngineIds |-> NoEngine(e)]
    /\ rngs = (RngOf(1) :> seed)
    /\ driver = NoDriver
    /\ tm = NoManager
    /\ call = [op |-> "new", on |-> RngOf(1), args |-> <<seed>>, result |-> <<>>,
               first |-> seed, count |-> 0]

StreamRandom ==
  LET d == drawRandom(rngs[RngOf(1)]) IN
  /\ call.count < MaxDraws
  /\ call' = Draw("random", <<>>, d)
  /\ rngs' = [rngs EXCEPT ![RngOf(1)] = d.seed]
  /\ UNCHANGED <<engines, tm, driver>>

StreamRandomInt(min, max) ==
  LET d == drawRandomInt(rngs[RngOf(1)], min, max) IN
  /\ call.count < MaxDraws
  /\ min <= max
  /\ call' = Draw("randomInt", <<min, max>>, d)
  /\ rngs' = [rngs EXCEPT ![RngOf(1)] = d.seed]
  /\ UNCHANGED <<engines, tm, driver>>

StreamChoice(arr) ==
  LET d == drawChoice(rngs[RngOf(1)], arr) IN
  /\ call.count < MaxDraws
  /\ arr # <<>>
  /\ call' = Draw("choice", <<arr>>, d)
  /\ rngs' = [rngs EXCEPT ![RngOf(1)] = d.seed]
  /\ UNCHANGED <<engines, tm, driver>>

NextStream ==
  \/ StreamRandom
  \/ \E min \in IntArgs, max \in IntArgs : StreamRandomInt(min, max)
  \/ \E arr \in Arrays : StreamChoice(arr)

SpecStream == InitStream /\ [][NextStream]_vars

(***************************************************************************)
(* A TopologyManager built on its own.  The constructor of the ring, the   *)
(* grid and the default case draws nothing and is one step; the two loops  *)
(* of buildSmallWorld() are followed draw by draw: pc "test" is the        *)
(* rewiring test of slot (i, j), pc "draw" the body of the do-while loop.  *)
(***************************************************************************)
MaxTopoPop == 16
MaxTopoSeed == 200

TopoSizes == (-1)..MaxTopoPop

\* for (i ...) for (j = 0; j < rewired[i].length; j++): the slot after (i, j)
NextSlot(t) ==
  IF t.j + 1 < Len(t.neighbors[t.i + 1])
  THEN [t EXCEPT !.j = t.j + 1, !.pc = "test"]
  ELSE IF t.i + 1 < t.popSize
       THEN [t EXCEPT !.i = t.i + 1, !.j = 0, !.pc = "test"]
       ELSE [t EXCEPT !.i = t.i + 1, !.j = 0, !.pc = "done", !.status = "ready"]

\* new TopologyManager(popSize, topology, rewiringProb, rng), up to the first draw
NewManager(popSize, topology, rewiringProb) ==
  IF topology = "smallworld" /\ popSize >= 1
  THEN [status |-> "building", popSize |-> popSize, topology |-> topology,
        rewiringProb |-> rewiringProb, neighbors |-> buildRing(popSize),
        positions |-> buildPositions(popSize, topology), i |-> 0, j |-> 0, pc |-> "test"]
  ELSE [status |-> "ready", popSize |-> popSize, topology |-> topology,
        rewiringProb |-> rewiringProb,
        neighbors |-> buildTopology(popSize, topology, rewiringProb, 0).neighbors,
        positions |-> buildPositions(popSize, topology), i |-> 0, j |-> 0, pc |-> "done"]

InitTopology ==
  \E popSize \in TopoSizes, topology \in Topologies,
     rewiringProb \in RewiringProbs, seed \in Seeds :
    /\ engines = [e \in EngineIds |-> NoEngine(e)]
    /\ rngs = (RngOf(1) :> seed)
    /\ driver = NoDriver
    /\ tm = NewManager(popSize, topology, rewiringProb)
    /\ call = Call("new", 0, <<popSize, topology, rewiringProb, seed>>, <<>>)

\* if (this.rng.random() < this.rewiringProb)
RewireTest ==
  LET seed == rngs[RngOf(1)] IN
  /\ tm.pc = "test"
  /\ tm' = IF ShouldRewire(seed, tm.rewiringProb) THEN [tm EXCEPT !.pc = "draw"]
                                                  ELSE NextSlot(tm)
  /\ rngs' = [rngs EXCEPT ![RngOf(1)] = drawRandom(seed).seed]
  /\ UNCHANGED <<engines, call, driver>>

\* do { newNeighbor = randomInt(0, popSize - 1) } while (...); rewired[i][j] = newNeighbor
RewireDraw ==
  LET d == drawRandomInt(rngs[RngOf(1)], 0, tm.popSize - 1) IN
  /\ tm.pc = "draw"
  /\ rngs[RngOf(1)] < MaxTopoSeed
  /\ tm' = IF DrawnAgain(tm.i, tm.neighbors[tm.i + 1], d.value)
           THEN tm
           ELSE NextSlot([tm EXCEPT !.neighbors[tm.i + 1][tm.j + 1] = d.value])
  /\ rngs' = [rngs EXCEPT ![RngOf(1)] = d.seed]
  /\ UNCHANGED <<engines, call, driver>>

\* The indices looked up: the cells and two ids on either side of the range
LookupIds == (-2)..(tm.popSize + 1)

\* topologyManager.getNeighbors(index)
GetNeighbors(index) ==
  /\ tm.status = "ready"
  /\ call' = Call("getNeighbors", 0, <<index>>, getNeighbors(tm.neighbors, index))
  /\ UNCHANGED <<engines, rngs, tm, driver>>

\* topologyManager.getPosition(index)
GetPosition(index) ==
  /\ tm.status = "ready"
  /\ call' = Call("getPosition", 0, <<index>>, getPosition(tm.positions, index))
  /\ UNCHANGED <<engines, rngs, tm, driver>>

NextTopology ==
  \/ RewireTest
  \/ RewireDraw
  \/ \E index \in LookupIds : GetNeighbors(index)
  \/ \E index \in LookupIds : GetPosition(index)

SpecTopology == InitTopology /\ [][NextTopology]_vars

\* The manager built draw by draw is the one buildTopology() returns, with the
\* generator left at the same counter; a construction that never returns is
\* never ready.
BuildAgrees ==
  (tm.status = "ready" /\ call.op = "new") =>
    LET t == buildTopology(call.args[1], call.args[2], call.args[3], call.args[4]) IN
    /\ ~t.hang
    /\ t.neighbors = tm.neighbors
    /\ t.seed = rngs[RngOf(1)]

(***************************************************************************)
(* The engine with its read operations: getStats(), getBestIndividual()    *)
(* and the lookups of its topology manager, called between evolve() calls. *)
(***************************************************************************)
\* The reduction with ind.fitness <= best.fitness: the last minimum wins
RECURSIVE reduceBestTiesLast(_, _, _)
reduceBestTiesLast(g, best, k) ==
  IF k > Len(g.population) THEN best
  ELSE LET ind == g.population[k] IN
       reduceBestTiesLast(g, IF g.objs[ind].fitness <= g.objs[best].fitness THEN ind ELSE best,
                          k + 1)

\* population.reduce((best, ind) => ind.fitness < best.fitness ? ind : best)
\* from entry k on, best being the accumulator
RECURSIVE reduceBest(_, _, _)
reduceBest(g, best, k) ==
  IF k > Len(g.population) THEN best
  ELSE LET ind == g.population[k] IN
       reduceBest(g, IF g.objs[ind].fitness < g.objs[best].fitness THEN ind ELSE best, k + 1)

\* getBestIndividual(): reduce without an initial value throws a TypeError on an
\* empty population and otherwise starts from the first entry
getBestIndividual(g) ==
  IF g.population = <<>> THEN [thrown |-> TRUE, ref |-> NoRef]
  ELSE [thrown |-> FALSE, ref |-> reduceBest(g, g.population[1], 2)]

\* getStats(): avg as the fraction num/den; diversity is Math.sqrt(variance),
\* written as the variance under the root, sum((n * f - sum)^2) / n^3
getStats(g) ==
  LET fitnesses == Fitnesses(g, g.population)
      n         == Len(fitnesses)
      sum       == SumSeq(fitnesses)
      sq        == [k \in 1..n |-> (n * fitnesses[k] - sum) * (n * fitnesses[k] - sum)]
  IN  [best      |-> MinOf(fitnesses),
       avg       |-> AvgOf(fitnesses),
       diversity |-> [sqrtNum |-> SumSeq(sq), sqrtDen |-> n * n * n]]

OpsConfigs == {c \in Configs : c.crossoverRate = 80 /\ c.seed = 1}

InitOps ==
  \E config \in OpsConfigs :
    LET c == Construct(config, 1) IN
    /\ engines = (1 :> c.engine) @@ (2 :> NoEngine(2))
    /\ rngs = (RngOf(1) :> c.seed)
    /\ driver = NoDriver
    /\ tm = NoManager
    /\ call = NoCall

\* A method of engine e can be called: it exists and is not inside evolve()
Callable(e) == engines[e].status = "ready" /\ NoneEvolving

GetStats(e) ==
  /\ Callable(e)
  /\ call' = Call("getStats", e, <<>>, getStats(engines[e]))
  /\ UNCHANGED <<engines, rngs, tm, driver>>

GetBestIndividual(e) ==
  /\ Callable(e)
  /\ call' = Call("getBestIndividual", e, <<>>, getBestIndividual(engines[e]))
  /\ UNCHANGED <<engines, rngs, tm, driver>>

\* The indices looked up on engine e: its cells and one id on either side
EngineLookupIds(e) == (-1)..engines[e].config.popSize

\* ga.topologyManager.getNeighbors(index)
EngineGetNeighbors(e, index) ==
  /\ Callable(e)
  /\ call' = Call("getNeighbors", e, <<index>>, getNeighbors(engines[e].neighbors, index))
  /\ UNCHANGED <<engines, rngs, tm, driver>>

\* ga.topologyManager.getPosition(index)
EngineGetPosition(e, index) ==
  /\ Callable(e)
  /\ call' = Call("getPosition", e, <<index>>, getPosition(engines[e].positions, index))
  /\ UNCHANGED <<engines, rngs, tm, driver>>

NextOps ==
  \E e \in EngineIds :
    \/ EvolveStart(e)
    \/ EvolveCell(e)
    \/ EvolveFinish(e)
    \/ GetStats(e)
    \/ GetBestIndividual(e)
    \/ \E index \in EngineLookupIds(e) : EngineGetNeighbors(e, index)
    \/ \E index \in EngineLookupIds(e) : EngineGetPosition(e, index)

SpecOps == InitOps /\ [][NextOps]_vars

(***************************************************************************)
(* The simulator component: run control and re-initialisation              *)
(***************************************************************************)
MaxDriverGen == 1
MaxTimeouts == 1

\* The configuration the component starts from, scaled down
DefaultConfig ==
  [popSize |-> 2, genomeLength |-> 2, mutationRate |-> 50, crossoverRate |-> 80,
   rewiringProb |-> 0, topology |-> "grid", fitnessFunction |-> "onemax", seed |-> 1]

\* The values the controls hand to handleConfigChange, scaled down
ControlValues ==
  [popSize |-> {3}, topology |-> {"ring"}]

\* Date.now()
Now == Seeds

\* The whole loop of evolve() on engine g from the generator counter seed
RECURSIVE evolveLoop(_, _)
evolveLoop(g, seed) ==
  IF LoopDone(g)
  THEN [engine |-> AfterLoop(g), seed |-> seed]
  ELSE LET r == evolveCell(g, [seed |-> seed, objs |-> g.objs, bufs |-> g.bufs, next |-> g.next])
       IN  evolveLoop(AfterCell(g, r), r.m.seed)

\* evolve() as one synchronous call
evolve(g, seed) ==
  evolveLoop([g EXCEPT !.pc = "loop", !.i = 0, !.newPopulation = <<>>], seed)

\* requestAnimationFrame: the id of the newly pending callback
requestId(d) == CHOOSE id \in 1..(Cardinality(d.frames) + 2) : id \notin d.frames /\ id # d.animationRef

requestAnimationFrame(d) ==
  [d EXCEPT !.frames = d.frames \cup {requestId(d)}, !.animationRef = requestId(d)]

stopAnimation(d) ==
  [d EXCEPT !.isRunning = FALSE,
            !.frames = IF d.animationRef # 0 THEN d.frames \ {d.animationRef} ELSE d.frames,
            !.animationRef = 0]

\* The slot in which initGA constructs: a new object, never the current one
SameSlot(gaRef) == IF gaRef = 0 THEN 1 ELSE gaRef

FreshSlot(gaRef) == IF gaRef = 1 THEN 2 ELSE 1

\* initGA(newConfig) at time seed: engines, generators and driver afterwards
initGA(d, newConfig, seed) ==
  LET slot == FreshSlot(d.gaRef)
      c == Construct([newConfig EXCEPT !.seed = seed], slot)
  IN  IF c.engine.status = "ready"
      THEN [engines |-> [engines EXCEPT ![slot] = c.engine],
            rngs    |-> [rngs EXCEPT ![RngOf(slot)] = c.seed],
            driver  |-> [d EXCEPT !.gaRef = slot]]
      ELSE [engines |-> engines, rngs |-> rngs, driver |-> d]

\* After the mount effect has run initGA(config)
InitDriver ==
  \E seed \in Now :
    LET c == Construct([DefaultConfig EXCEPT !.seed = seed], 1) IN
    /\ engines = (1 :> c.engine) @@ (2 :> NoEngine(2))
    /\ rngs = (RngOf(1) :> c.seed) @@ (RngOf(2) :> 0)
    /\ driver = [NoDriver EXCEPT !.mounted = TRUE, !.config = DefaultConfig, !.gaRef = 1]
    /\ tm = NoManager
    /\ call = NoCall

\* handleStart returns at once while a run is on
StartNeverIgnored(d) == FALSE

StartIgnored(d) == d.isRunning

HandleStart ==
  /\ driver.mounted
  /\ driver' = IF StartIgnored(driver)
               THEN [driver EXCEPT !.control = "start"]
               ELSE [requestAnimationFrame([driver EXCEPT !.isRunning = TRUE])
                       EXCEPT !.control = "start"]
  /\ call' = Call("handleStart", 0, <<>>, <<>>)
  /\ UNCHANGED <<engines, rngs, tm>>

HandlePause ==
  /\ driver.mounted
  /\ driver' = [stopAnimation(driver) EXCEPT !.control = "pause"]
  /\ call' = Call("handlePause", 0, <<>>, <<>>)
  /\ UNCHANGED <<engines, rngs, tm>>

HandleReset(seed) ==
  /\ driver.mounted
  /\ LET r == initGA(stopAnimation(driver), driver.config, seed) IN
     /\ engines' = r.engines
     /\ rngs' = r.rngs
     /\ driver' = [r.driver EXCEPT !.control = "reset"]
  /\ call' = Call("handleReset", 0, <<>>, <<>>)
  /\ UNCHANGED tm

HandleConfigChange(key, value) ==
  /\ driver.mounted
  /\ Len(driver.timeouts) < MaxTimeouts
  /\ LET newConfig == [driver.config EXCEPT ![key] = value] IN
     driver' = [stopAnimation(driver) EXCEPT !.config = newConfig,
                                             !.timeouts = Append(driver.timeouts, newConfig),
                                             !.control = "config"]
  /\ call' = Call("handleConfigChange", 0, <<key, value>>, <<>>)
  /\ UNCHANGED <<engines, rngs, tm>>

\* The callback handleConfigChange handed to setTimeout(..., 0); nothing clears
\* it, so it runs after an unmount too
Timeout(seed) ==
  /\ driver.timeouts # <<>>
  /\ LET r == initGA([driver EXCEPT !.timeouts = Tail(driver.timeouts)],
                     Head(driver.timeouts), seed) IN
     /\ engines' = r.engines
     /\ rngs' = r.rngs
     /\ driver' = r.driver
  /\ call' = Call("initGA", 0, <<Head(driver.timeouts)>>, <<>>)
  /\ UNCHANGED tm

\* animate(timestamp) run as pending callback id; due: the interval has passed
Frame(id, due) ==
  /\ id \in driver.frames
  /\ driver.gaRef # 0
  /\ due => engines[driver.gaRef].generation < MaxDriverGen
  /\ LET g == engines[driver.gaRef]
         r == evolve(g, rngs[g.rng])
     IN  IF due
         THEN /\ engines' = [engines EXCEPT ![driver.gaRef] = r.engine]
              /\ rngs' = [rngs EXCEPT ![g.rng] = r.seed]
         ELSE UNCHANGED <<engines, rngs>>
  /\ driver' = requestAnimationFrame([driver EXCEPT !.frames = driver.frames \ {id}])
  /\ call' = Call("animate", driver.gaRef, <<due>>, <<>>)
  /\ UNCHANGED tm

\* The cleanup of the unmount effect: the callback animationRef names is
\* cancelled; isRunning and animationRef are left as they are, pending timeouts
\* are not cleared, and no handler is reachable afterwards
Unmount ==
  /\ driver.mounted
  /\ driver' = [driver EXCEPT
                  !.mounted = FALSE,
                  !.frames = IF driver.animationRef # 0
                             THEN driver.frames \ {driver.animationRef}
                             ELSE driver.frames]
  /\ call' = Call("unmount", 0, <<>>, <<>>)
  /\ UNCHANGED <<engines, rngs, tm>>

NextDriver ==
  \/ HandleStart
  \/ HandlePause
  \/ \E seed \in Now : HandleReset(seed)
  \/ \E key \in DOMAIN ControlValues : \E value \in ControlValues[key] :
       HandleConfigChange(key, value)
  \/ \E seed \in Now : Timeout(seed)
  \/ \E id \in driver.frames : \E due \in BOOLEAN : Frame(id, due)
  \/ Unmount

SpecDriver == InitDriver /\ [][NextDriver]_vars

(***************************************************************************)
(* Properties                                                              *)
(***************************************************************************)
Ready(e) == engines[e].status = "ready"

\* The genes and the cached fitness of individual o of engine g
GenesOf(g, o) == g.bufs[g.objs[o].genome]
FitnessOf(g, o) == g.objs[o].fitness

\* The population as values: genes and cached fitness per cell
PopulationView(g) ==
  [k \in DOMAIN g.population |->
     [genes |-> GenesOf(g, g.population[k]), fitness |-> FitnessOf(g, g.population[k])]]

\* A step of engine e that runs one iteration of the loop of evolve()
CellStep(e) ==
  /\ engines[e].pc = "loop"
  /\ engines'[e].pc = "loop"
  /\ engines'[e].i = engines[e].i + 1

\* A step of engine e that leaves the loop and completes evolve()
FinishStep(e) == engines[e].pc = "loop" /\ engines'[e].pc = "idle"

\* Engine e has just run the iteration of cell i - 1
InLoopAfterCell(e) == Ready(e) /\ engines[e].pc = "loop" /\ engines[e].i >= 1

----------------------------------------------------------------------------
\* C1  Determinism: two engines constructed with the same configuration and
\* seed either both fail to construct in the same way, or have the same
\* adjacency and, whenever they have made the same number of evolve() calls,
\* the same population (genes and cached fitness per cell) and the same
\* history.best / history.avg.
Determinism ==
  \A e1 \in EngineIds : \A e2 \in EngineIds :
    LET g1 == engines[e1]
        g2 == engines[e2]
    IN  (g1.status # "absent" /\ g2.status # "absent" /\ g1.config = g2.config)
        => /\ g1.status = g2.status
           /\ g1.neighbors = g2.neighbors
           /\ (g1.pc = "idle" /\ g2.pc = "idle" /\ g1.generation = g2.generation)
              => /\ PopulationView(g1) = PopulationView(g2)
                 /\ g1.history = g2.history

\* Both twins have evolved twice, one after the other, and the population has changed
DeterminismWitness ==
  /\ Ready(1) /\ Ready(2)
  /\ engines[1].config = engines[2].config
  /\ engines[1].pc = "idle" /\ engines[2].pc = "idle"
  /\ engines[1].generation = 2 /\ engines[2].generation = 2
  /\ engines[1].config.topology = "smallworld"
  /\ engines[1].config.mutationRate > 0
  /\ \E k \in DOMAIN engines[1].population :
       engines[1].population[k] > engines[1].config.popSize
  /\ engines[1].history.best[2] < engines[1].history.best[1]

----------------------------------------------------------------------------
\* C2  Population size: in every constructed engine with popSize >= 1 the
\* population has exactly popSize entries, after construction and after every
\* evolve(), and every entry is an individual.
PopulationSize ==
  \A e \in EngineIds :
    (Ready(e) /\ engines[e].pc = "idle" /\ engines[e].config.popSize >= 1)
    => /\ Len(engines[e].population) = engines[e].config.popSize
       /\ \A k \in 1..engines[e].config.popSize :
            engines[e].population[k] \in DOMAIN engines[e].objs

PopulationSizeWitness ==
  \E e \in EngineIds :
    /\ Ready(e) /\ engines[e].pc = "idle"
    /\ engines[e].generation = 2
    /\ engines[e].config.popSize = 3
    /\ Len(engines[e].population) = 3
    /\ \E k \in 1..3 : engines[e].population[k] > 3

----------------------------------------------------------------------------
\* C3  Bounded FIFO history: after g evolve() calls both history sequences
\* have min(g, 300) entries; every evolve() appends (min fitness, mean
\* fitness) of the population it installs as the last entry, keeps the
\* earlier entries in order, and drops the oldest one when 300 are held.
HistoryLength ==
  \A e \in EngineIds :
    (Ready(e) /\ engines[e].pc = "idle")
    => LET n == IF engines[e].generation < 300 THEN engines[e].generation ELSE 300
       IN  /\ Len(engines[e].history.best) = n
           /\ Len(engines[e].history.avg) = n

IsMinimumOf(v, g) ==
  IF g.population = <<>> THEN v = Infinity
  ELSE /\ \E k \in DOMAIN g.population : v = FitnessOf(g, g.population[k])
       /\ \A k \in DOMAIN g.population : v <= FitnessOf(g, g.population[k])

IsMeanOf(v, g) ==
  /\ v.den = Len(g.population)
  /\ v.num = SumSeq([k \in DOMAIN g.population |-> FitnessOf(g, g.population[k])])

\* new is old with one entry appended, the oldest dropped if old was full
FifoPush(old, new) ==
  IF Len(old) < 300
  THEN Len(new) = Len(old) + 1 /\ SubSeq(new, 1, Len(old)) = old
  ELSE Len(new) = 300 /\ SubSeq(new, 1, 299) = SubSeq(old, 2, 300)

HistoryStep ==
  \A e \in EngineIds :
    FinishStep(e)
    => LET old == engines[e].history
           new == engines'[e].history
       IN  /\ FifoPush(old.best, new.best)
           /\ FifoPush(old.avg, new.avg)
           /\ IsMinimumOf(new.best[Len(new.best)], engines'[e])
           /\ IsMeanOf(new.avg[Len(new.avg)], engines'[e])

BoundedHistory == [](HistoryLength) /\ [][HistoryStep]_vars

\* More than 300 generations have run and two entries have been dropped; the
\* retained entries are not all equal
BoundedHistoryWitness ==
  \E e \in EngineIds :
    /\ Ready(e) /\ engines[e].pc = "idle"
    /\ engines[e].generation = 302
    /\ Len(engines[e].history.best) = 300
    /\ engines[e].config.popSize = 2
    /\ engines[e].history.avg[1] # engines[e].history.avg[300]

----------------------------------------------------------------------------
\* C4  Monotonic best: consecutive retained entries of history.best never
\* increase.
MonotonicBest ==
  \A e \in EngineIds :
    Ready(e)
    => \A k \in 1..(Len(engines[e].history.best) - 1) :
         engines[e].history.best[k + 1] <= engines[e].history.best[k]

MonotonicBestWitness ==
  \E e \in EngineIds :
    /\ Ready(e)
    /\ Len(engines[e].history.best) >= 3
    /\ engines[e].history.best[2] < engines[e].history.best[1]
    /\ engines[e].history.best[3] = engines[e].history.best[2]

----------------------------------------------------------------------------
\* C5  Strict replacement: an iteration of evolve() puts the child into the
\* new population exactly when the child's fitness is strictly lower than the
\* incumbent's, and otherwise the incumbent itself, unchanged; no cell's
\* cached fitness is higher after an evolve() than before it.
StrictReplacementStep ==
  \A e \in EngineIds :
    CellStep(e)
    => LET g   == engines[e]
           h   == engines'[e]
           inc == g.population[g.i + 1]
       IN  /\ h.child \notin DOMAIN g.objs
           /\ h.newPopulation[g.i + 1] =
                IF FitnessOf(h, h.child) < FitnessOf(g, inc) THEN h.child ELSE inc
           /\ h.objs[inc] = g.objs[inc]
           /\ GenesOf(h, inc) = GenesOf(g, inc)

NoCellWorseStep ==
  \A e \in EngineIds :
    FinishStep(e)
    => /\ DOMAIN engines'[e].population = DOMAIN engines[e].population
       /\ \A k \in DOMAIN engines[e].population :
            FitnessOf(engines'[e], engines'[e].population[k])
              <= FitnessOf(engines[e], engines[e].population[k])

StrictReplacement == [][StrictReplacementStep /\ NoCellWorseStep]_vars

\* A child as fit as the incumbent, but with other genes, was not installed
StrictReplacementWitness ==
  \E e \in EngineIds :
    /\ InLoopAfterCell(e)
    /\ LET g == engines[e] IN
       /\ FitnessOf(g, g.child) = FitnessOf(g, g.population[g.i])
       /\ GenesOf(g, g.child) # GenesOf(g, g.population[g.i])
       /\ g.newPopulation[g.i] = g.population[g.i]
       /\ \E k \in 1..(g.i - 1) : g.newPopulation[k] # g.population[k]

----------------------------------------------------------------------------
\* C6  Synchronous update: while the loop of evolve() runs, this.population
\* and the genes and cached fitness of its individuals stay as they were when
\* evolve() began; every candidate a tournament draws is an individual of
\* that population; the population changes only in the step that ends the
\* loop, after all popSize cells are processed, and becomes the buffer.
SynchronousStep ==
  \A e \in EngineIds :
    LET g == engines[e]
        h == engines'[e]
    IN  /\ CellStep(e)
           => /\ h.population = g.population
              /\ PopulationView(h) = PopulationView(g)
              /\ Len(h.newPopulation) = g.i + 1
              /\ {h.sel1.a, h.sel1.b, h.sel2.a, h.sel2.b}
                   \subseteq {g.population[k] : k \in DOMAIN g.population}
        /\ h.population # g.population
           => /\ FinishStep(e)
              /\ Len(g.newPopulation) = g.config.popSize
              /\ h.population = g.newPopulation

SynchronousUpdate == [][SynchronousStep]_vars

\* The last tournament drew the individual of an earlier cell whose slot in
\* the buffer already holds a child
SynchronousUpdateWitness ==
  \E e \in EngineIds :
    /\ InLoopAfterCell(e)
    /\ LET g == engines[e] IN
       \E k \in 1..(g.i - 1) :
         /\ g.newPopulation[k] # g.population[k]
         /\ g.sel1.a = g.population[k]
         /\ g.parent1 # NoRef
         /\ GenesOf(g, g.parent1) = GenesOf(g, g.population[k])
         /\ GenesOf(g, g.parent1) # GenesOf(g, g.newPopulation[k])

----------------------------------------------------------------------------
\* C7  Crossover rate: with crossoverRate = 0 and mutationRate = 0 the child
\* of every iteration has the genes of parent1.
CrossoverRateZeroCopiesParent ==
  \A e \in EngineIds :
    (/\ InLoopAfterCell(e)
     /\ engines[e].config.crossoverRate = 0
     /\ engines[e].config.mutationRate = 0)
    => GenesOf(engines[e], engines[e].child) = GenesOf(engines[e], engines[e].parent1)

----------------------------------------------------------------------------
\* The candidate list of the iteration engine g has just run
CandidatesOf(g) ==
  LET list == getNeighbors(g.neighbors, g.i - 1) \o <<g.i - 1>>
  IN  {g.population[list[k] + 1] : k \in DOMAIN list}

\* parent is a copy of winner with its own gene array
IndependentCopy(g, parent, winner) ==
  /\ parent \notin Range(g.population)
  /\ \A o \in DOMAIN g.objs : o # parent => g.objs[o].genome # g.objs[parent].genome
  /\ GenesOf(g, parent) = GenesOf(g, winner)
  /\ FitnessOf(g, parent) = FitnessOf(g, winner)

\* C8 as stated: both drawn candidates come from the candidate list, and the
\* parent is an independent copy of the one with strictly lower fitness, the
\* first drawn when they are equally fit.
TournamentKeepsFirstOnTie ==
  \A e \in EngineIds :
    InLoopAfterCell(e)
    => LET g == engines[e] IN
       /\ {g.sel1.a, g.sel1.b, g.sel2.a, g.sel2.b} \subseteq CandidatesOf(g)
       /\ IndependentCopy(g, g.parent1,
            IF FitnessOf(g, g.sel1.b) < FitnessOf(g, g.sel1.a) THEN g.sel1.b ELSE g.sel1.a)
       /\ IndependentCopy(g, g.parent2,
            IF FitnessOf(g, g.sel2.b) < FitnessOf(g, g.sel2.a) THEN g.sel2.b ELSE g.sel2.a)

\* C8 amended: both drawn candidates come from the candidate list, and the
\* parent is an independent copy of the first drawn candidate if its fitness
\* is strictly lower than the second's, and of the second drawn otherwise (so
\* the second drawn when they are equally fit).
TournamentKeepsSecondOnTie ==
  \A e \in EngineIds :
    InLoopAfterCell(e)
    => LET g == engines[e] IN
       /\ {g.sel1.a, g.sel1.b, g.sel2.a, g.sel2.b} \subseteq CandidatesOf(g)
       /\ IndependentCopy(g, g.parent1,
            IF FitnessOf(g, g.sel1.a) < FitnessOf(g, g.sel1.b) THEN g.sel1.a ELSE g.sel1.b)
       /\ IndependentCopy(g, g.parent2,
            IF FitnessOf(g, g.sel2.a) < FitnessOf(g, g.sel2.b) THEN g.sel2.a ELSE g.sel2.b)

\* Two equally fit candidates with different genes were drawn
TournamentWitness ==
  \E e \in EngineIds :
    /\ InLoopAfterCell(e)
    /\ LET g == engines[e] IN
       /\ FitnessOf(g, g.sel1.a) = FitnessOf(g, g.sel1.b)
       /\ GenesOf(g, g.sel1.a) # GenesOf(g, g.sel1.b)
       /\ GenesOf(g, g.parent1) = GenesOf(g, g.sel1.b)
       /\ FitnessOf(g, g.sel2.a) < FitnessOf(g, g.sel2.b)

----------------------------------------------------------------------------
\* C9  Fitness cache: after construction and after every evolve(), the cached
\* fitness of every individual of the population is set and is the configured
\* evaluator's value for the individual's current genes.
FitnessCacheConsistent ==
  \A e \in EngineIds :
    (Ready(e) /\ engines[e].pc = "idle")
    => \A k \in DOMAIN engines[e].population :
         LET o == engines[e].population[k] IN
         /\ FitnessOf(engines[e], o) # NullFitness
         /\ FitnessOf(engines[e], o) = evaluate(engines[e].config, GenesOf(engines[e], o))

\* After two generations with mutation, a child that reached the optimum of
\* trap holds a cell
FitnessCacheWitness ==
  \E e \in EngineIds :
    /\ Ready(e) /\ engines[e].pc = "idle"
    /\ engines[e].generation >= 2
    /\ engines[e].config.mutationRate > 0
    /\ engines[e].config.fitnessFunction = "trap"
    /\ \E k \in DOMAIN engines[e].population :
         /\ engines[e].population[k] > engines[e].config.popSize
         /\ FitnessOf(engines[e], engines[e].population[k]) = 0

----------------------------------------------------------------------------
InvalidConfig(config) ==
  \/ config.fitnessFunction \notin FitnessNames
  \/ config.popSize <= 0
  \/ config.genomeLength <= 0

\* C10  Configuration validation: constructing an engine with an invalid
\* fitness-function identifier, popSize <= 0 or genomeLength <= 0 fails with
\* an error, and no engine is produced.
ConfigurationValidated ==
  \A e \in EngineIds :
    (engines[e].status # "absent" /\ InvalidConfig(engines[e].config))
    => engines[e].status = "TypeError"

----------------------------------------------------------------------------
\* C11: whenever bit-vector crossover has run on genomes of length L >= 1 the
\* cut index lies in [1, L - 1] and the child (before mutation) has genes
\* [0, cut) of parent1 and [cut, L) of parent2; for L = 1 no cut index is in
\* that range, so none may be produced.
CrossoverCutInRange ==
  \A e \in EngineIds :
    (InLoopAfterCell(e) /\ engines[e].config.genomeLength >= 1) =>
      LET g  == engines[e]
          p1 == GenesOf(g, g.parent1)
          p2 == GenesOf(g, g.parent2)
          L  == Len(p1)
      IN  /\ g.cut \in 1..(L - 1)
          /\ g.config.mutationRate = 0 =>
                GenesOf(g, g.child) = [k \in 1..L |-> IF k - 1 < g.cut THEN p1[k] ELSE p2[k]]

----------------------------------------------------------------------------
\* The number of 1 genes, counted by position
Ones(genome) == Cardinality({k \in DOMAIN genome : genome[k] = 1})

\* C19: trap on a bit vector of length n with k ones is 0 if k = 0, 1 if
\* k = n, and n - k + 1 otherwise; for n >= 2 the all-zeros vector is the only
\* vector scoring 0 and every other vector scores more, all-ones scores 1, and
\* every vector with 1 <= k <= n - 1 scores strictly more (worse) than
\* all-ones; for n = 5 a vector with a single 1 scores 5.
TrapEvaluator ==
  call.op = "trap" =>
    LET x == call.args[1]
        n == Len(x)
        k == Ones(x)
        v == call.result
    IN  /\ v = (IF k = 0 THEN 0 ELSE IF k = n THEN 1 ELSE n - k + 1)
        /\ n >= 2 => /\ (k = 0 => v = 0)
                     /\ (k # 0 => v > 0)
                     /\ (k = n => v = 1)
                     /\ (k >= 1 /\ k <= n - 1 => v > 1)
        /\ (n = 5 /\ k = 1 => v = 5)

\* trap has been applied to a vector of length 5 with a single 1 and to none
\* other since, and returned 5
TrapEvaluatorWitness ==
  /\ call.op = "trap"
  /\ Len(call.args[1]) = 5
  /\ Ones(call.args[1]) = 1
  /\ call.result = 5

----------------------------------------------------------------------------
\* C20: onemax on a bit vector of length L returns L minus the number of 1
\* genes: 0 for the all-ones vector and L for the all-zeros vector.
OnemaxEvaluator ==
  call.op = "onemax" =>
    LET x == call.args[1]
        v == call.result
    IN  /\ v = Len(x) - Ones(x)
        /\ (Ones(x) = Len(x) => v = 0)
        /\ (Ones(x) = 0 => v = Len(x))

\* onemax has been applied to a mixed vector of three 1 genes among five
OnemaxEvaluatorWitness ==
  /\ call.op = "onemax"
  /\ call.args[1] = <<1, 0, 1, 1, 0>>
  /\ call.result = 2

----------------------------------------------------------------------------
\* The generator's counter after the calls made so far
StreamCounter == rngs[RngOf(1)] = call.first + call.count

StreamResult ==
  /\ call.op = "random" => call.result \in 0..(SCALE - 1)
  /\ call.op = "randomInt" => call.result \in call.args[1]..call.args[2]
  /\ call.op = "choice" => call.result \in Range(call.args[1])

StreamStep == rngs'[RngOf(1)] = rngs[RngOf(1)] + 1 /\ call'.count = call.count + 1

\* C18: every call of random, randomInt or choice advances the seed counter by
\* exactly 1, so after k calls the counter is the initial seed plus k;
\* random() returns a value in [0, 1), randomInt(min, max) with min <= max
\* returns an integer in [min, max], and choice(arr) for a non-empty arr returns
\* an element of arr, each from that one draw.
StreamAdvance == [](StreamCounter /\ StreamResult) /\ [][StreamStep]_vars

\* Four or more calls have been made, the last one a randomInt over a range of
\* several values that returned its upper end
StreamAdvanceWitness ==
  /\ call.op = "randomInt"
  /\ call.count >= 4
  /\ call.args[1] < call.args[2]
  /\ call.result = call.args[2]
  /\ rngs[RngOf(1)] = call.first + call.count

----------------------------------------------------------------------------
\* The manager under construction is a small-world one
SmallWorld == tm.topology = "smallworld" /\ tm.status # "absent"

\* The step leaves the do-while loop: the drawn id is written into slot (i, j)
RewiredStep == tm.pc = "draw" /\ tm'.pc # "draw"

\* The id written is a cell id other than the cell and other than both ids of
\* the cell's list as it stood, and no other slot changes
RewiredDistinct ==
  LET i == tm.i
      j == tm.j
      v == tm'.neighbors[i + 1][j + 1]
  IN  /\ v \in 0..(tm.popSize - 1)
      /\ v # i
      /\ \A k \in 1..Len(tm.neighbors[i + 1]) : tm.neighbors[i + 1][k] # v
      /\ tm'.neighbors = [tm.neighbors EXCEPT ![i + 1][j + 1] = v]

\* Slots are visited in ascending order of cell id, then of slot index
SlotOrder ==
  LET s == 2 * tm.i + tm.j
      t == 2 * tm'.i + tm'.j
  IN  t = s \/ t = s + 1

RewiringStep ==
  SmallWorld =>
    /\ SlotOrder
    /\ RewiredStep => RewiredDistinct
    /\ ~RewiredStep => tm'.neighbors = tm.neighbors

\* Every list holds exactly two distinct cell ids, neither the cell itself
TwoDistinctNeighbors ==
  \A c \in 1..Len(tm.neighbors) :
    LET row == tm.neighbors[c] IN
    /\ Len(row) = 2
    /\ row[1] # row[2]
    /\ row[1] \in 0..(tm.popSize - 1) /\ row[2] \in 0..(tm.popSize - 1)
    /\ row[1] # c - 1 /\ row[2] # c - 1

\* C12: every rewired slot of a small-world manager receives an id different
\* from the cell itself and from every id in that cell's (partially rewired)
\* list at that moment, slots being processed in ascending cell id and slot
\* index; so for popSize >= 3 and any rewiring probability every cell's list of
\* a finished manager holds exactly 2 distinct ids in [0, popSize), neither
\* equal to the cell.
RewiringDistinct ==
  /\ []((SmallWorld /\ tm.status = "ready" /\ tm.popSize >= 3) =>
          (Len(tm.neighbors) = tm.popSize /\ TwoDistinctNeighbors))
  /\ [][RewiringStep]_vars

\* A finished small-world manager of 8 cells with rewiring probability 1, in
\* which cell 0 has lost both of its ring neighbors
RewiringDistinctWitness ==
  /\ SmallWorld /\ tm.status = "ready"
  /\ tm.popSize = 8 /\ tm.rewiringProb = 100
  /\ tm.neighbors[1][1] # 7 /\ tm.neighbors[1][2] # 1

----------------------------------------------------------------------------
\* C13: a small-world manager with rewiring probability 0 has the same ordered
\* neighbor lists as the ring topology for the same popSize, for every popSize.
SmallWorldZeroIsRing ==
  (SmallWorld /\ tm.status = "ready" /\ tm.rewiringProb = 0) =>
    tm.neighbors = buildRing(tm.popSize)

\* A finished small-world manager of 6 cells with rewiring probability 0: all
\* 12 rewiring tests have been made, one draw each
SmallWorldZeroIsRingWitness ==
  /\ SmallWorld /\ tm.status = "ready" /\ tm.rewiringProb = 0
  /\ tm.popSize = 6
  /\ call.op = "new"
  /\ rngs[RngOf(1)] = call.args[4] + 12

----------------------------------------------------------------------------
\* The cells of the s x s torus around cell i whose index is below n
MooreCells(i, s, n) ==
  { x \in 0..(n - 1) :
      \E dr \in {-1, 0, 1}, dc \in {-1, 0, 1} :
        /\ ~(dr = 0 /\ dc = 0)
        /\ x = (((i \div s) + dr + s) % s) * s + (((i % s) + dc + s) % s) }

\* C14: in a grid of N cells with s = ceil(sqrt(N)), the neighbors of cell i are
\* exactly the cells of its Moore neighborhood on the s x s torus whose index
\* is below N; when N is a perfect square with s >= 3 (N = 9) every cell has
\* exactly 8 neighbors, all distinct and none equal to the cell.
GridAdjacency ==
  (tm.topology = "grid" /\ tm.status = "ready") =>
    LET n == tm.popSize
        s == CeilSqrt(n)
    IN  /\ Len(tm.neighbors) = ArrayLength(n)
        /\ \A i \in 0..(n - 1) :
             LET row == tm.neighbors[i + 1] IN
             /\ Range(row) = MooreCells(i, s, n)
             /\ (s * s = n /\ s >= 3) =>
                  /\ Len(row) = 8
                  /\ Cardinality(Range(row)) = 8
                  /\ i \notin Range(row)

\* A grid of 9 cells has been built and asked for the neighbors of its corner
\* cell 0: the 8 cells around it on the torus
GridAdjacencyWitness ==
  /\ tm.topology = "grid" /\ tm.status = "ready"
  /\ tm.popSize = 9
  /\ call.op = "getNeighbors" /\ call.args[1] = 0
  /\ call.result = <<8, 6, 7, 2, 1, 5, 3, 4>>

----------------------------------------------------------------------------
\* C15: in a ring of N cells the list of cell i is [(i - 1 + N) mod N,
\* (i + 1) mod N]: its first entry is the cell whose successor is i, its second
\* the successor of i; for N = 6 cell 0 has [5, 1] and cell 3 has [2, 4].
RingAdjacency ==
  (tm.topology = "ring" /\ tm.status = "ready") =>
    LET n == tm.popSize IN
    /\ Len(tm.neighbors) = ArrayLength(n)
    /\ \A i \in 0..(n - 1) :
         LET row == tm.neighbors[i + 1] IN
         /\ Len(row) = 2
         /\ row[1] \in 0..(n - 1) /\ (row[1] + 1) % n = i
         /\ row[2] \in 0..(n - 1) /\ (i + 1) % n = row[2]
         /\ row = << (i - 1 + n) % n, (i + 1) % n >>
    /\ n = 6 => (tm.neighbors[1] = <<5, 1>> /\ tm.neighbors[4] = <<2, 4>>)

\* A ring of 6 cells has been built and asked for the neighbors of cell 3
RingAdjacencyWitness ==
  /\ tm.topology = "ring" /\ tm.status = "ready"
  /\ tm.popSize = 6
  /\ tm.neighbors[1] = <<5, 1>>
  /\ call.op = "getNeighbors" /\ call.args[1] = 3
  /\ call.result = <<2, 4>>

----------------------------------------------------------------------------
\* C16: getNeighbors(id) on a built manager of any topology returns the stored
\* list of cell id when id is in [0, popSize) and the empty list otherwise.
NeighborLookup ==
  (call.op = "getNeighbors" /\ tm.status = "ready") =>
    LET id == call.args[1] IN
    IF id >= 0 /\ id < tm.popSize
    THEN call.result = tm.neighbors[id + 1]
    ELSE call.result = <<>>

\* The id one past the last cell has been looked up on a rewired small-world
\* manager and the empty list came back
NeighborLookupWitness ==
  /\ call.op = "getNeighbors" /\ tm.status = "ready"
  /\ tm.topology = "smallworld" /\ tm.popSize = 5 /\ tm.rewiringProb = 100
  /\ call.args[1] = tm.popSize
  /\ call.result = <<>>

----------------------------------------------------------------------------
\* h2 is h1 with exactly one entry appended
OneAppended(h1, h2) == Len(h2) = Len(h1) + 1 /\ SubSeq(h2, 1, Len(h1)) = h1

\* The step in which evolve() of engine e returns
GenerationAdvances(e) ==
  LET g == engines[e]
      h == engines'[e]
  IN  /\ h.generation = g.generation + 1
      /\ OneAppended(g.history.best, h.history.best)
      /\ OneAppended(g.history.avg, h.history.avg)
      /\ Len(h.population) = ArrayLength(g.config.popSize)
      /\ h.population = g.newPopulation
      /\ \A k \in DOMAIN h.population : h.population[k] \in DOMAIN h.objs

\* Any other step: a read operation, the entry into evolve() or one iteration
GenerationKept(e) ==
  LET g == engines[e]
      h == engines'[e]
  IN  /\ h.generation = g.generation
      /\ h.population = g.population
      /\ PopulationView(h) = PopulationView(g)
      /\ h.history = g.history

GenerationStep ==
  \A e \in EngineIds :
    Ready(e) => IF FinishStep(e) THEN GenerationAdvances(e) ELSE GenerationKept(e)

\* No evolve() call has been made on a constructed engine: generation is 0
GenerationZero ==
  \A e \in EngineIds :
    (Ready(e) /\ call.op = "new") =>
      (engines[e].generation = 0 /\ engines[e].history = EmptyHistory)

\* C17: the generation counter is 0 after construction; each evolve() call
\* increases it by exactly 1, appends exactly one entry to history.best and one
\* to history.avg and installs the complete next population when it returns;
\* no other step (getStats, getBestIndividual, a neighbor or position lookup,
\* or a step inside evolve() before its end) changes generation, population or
\* history.
OneGenerationPerEvolve == [](GenerationZero) /\ [][GenerationStep]_vars

\* getStats() has been called after the second evolve() of an engine of four
\* cells whose best fitness improved, and reports the newest history entry
OneGenerationPerEvolveWitness ==
  /\ Ready(1)
  /\ call.op = "getStats"
  /\ engines[1].generation = 2
  /\ engines[1].config.popSize = 4
  /\ Len(engines[1].history.best) = 2
  /\ engines[1].history.best[2] < engines[1].history.best[1]
  /\ call.result.best = engines[1].history.best[2]

----------------------------------------------------------------------------
\* Cell k (1-based) holds the minimum cached fitness and no earlier cell does
FirstMinimum(g, k) ==
  /\ \A j \in DOMAIN g.population :
       FitnessOf(g, g.population[k]) <= FitnessOf(g, g.population[j])
  /\ \A j \in 1..(k - 1) :
       FitnessOf(g, g.population[j]) > FitnessOf(g, g.population[k])

BestIsFirstMinimum ==
  (call.op = "getBestIndividual" /\ engines[call.on].config.popSize >= 1) =>
    LET g == engines[call.on] IN
    /\ ~call.result.thrown
    /\ \E k \in DOMAIN g.population :
         FirstMinimum(g, k) /\ call.result.ref = g.population[k]

\* The call leaves every engine and every generator as it was
BestIndividualReads ==
  (call'.op = "getBestIndividual" /\ call' # call) => (engines' = engines /\ rngs' = rngs)

\* C21: getBestIndividual() returns the individual of the current population
\* with minimum cached fitness, the one at the lowest cell id when several
\* cells share the minimum, and does not modify the population.
BestIndividual == [](BestIsFirstMinimum) /\ [][BestIndividualReads]_vars

\* getBestIndividual() has been called on an evolved population of four in
\* which two cells after cell 0 share the minimum, and returned the earlier one
BestIndividualWitness ==
  /\ call.op = "getBestIndividual"
  /\ LET g == engines[call.on] IN
     /\ g.config.popSize = 4
     /\ g.generation >= 1
     /\ \E k \in 2..4 : \E j \in (k + 1)..4 :
          /\ FirstMinimum(g, k)
          /\ call.result.ref = g.population[k]
          /\ g.population[j] # g.population[k]
          /\ FitnessOf(g, g.population[j]) = FitnessOf(g, g.population[k])

----------------------------------------------------------------------------
\* Object o of engine h owns its gene buffer
OwnBuffer(h, o) == \A p \in DOMAIN h.objs : p # o => h.objs[p].genome # h.objs[o].genome

\* Every object engine g holds has in h the genes and cached fitness it had
ObjectsKept(g, h) ==
  \A o \in DOMAIN g.objs \cap DOMAIN h.objs :
    GenesOf(h, o) = GenesOf(g, o) /\ FitnessOf(h, o) = FitnessOf(g, o)

\* parent is a fresh object with the genes and fitness of one of the two drawn
\* candidates
FreshCopy(g, h, parent, sel) ==
  /\ parent \notin DOMAIN g.objs
  /\ OwnBuffer(h, parent)
  /\ \E w \in {sel.a, sel.b} :
       GenesOf(h, parent) = GenesOf(g, w) /\ FitnessOf(h, parent) = FitnessOf(g, w)

CopyStep ==
  \A e \in EngineIds :
    LET g == engines[e]
        h == engines'[e]
    IN  /\ CellStep(e) =>
             /\ ObjectsKept(g, h)
             /\ Range(g.population) \cup Range(g.newPopulation) \subseteq DOMAIN h.objs
             /\ FreshCopy(g, h, h.parent1, h.sel1)
             /\ FreshCopy(g, h, h.parent2, h.sel2)
             /\ h.child \notin DOMAIN g.objs /\ OwnBuffer(h, h.child)
        /\ FinishStep(e) =>
             /\ ObjectsKept(g, h)
             /\ Range(g.newPopulation) \subseteq DOMAIN h.objs

\* C22: copy() returns an individual with equal genes and the same cached
\* fitness whose gene buffer is not shared with the source, so the crossover
\* and mutation of an iteration of evolve() work on fresh objects and leave
\* the genes and cached fitness of every individual of the previous generation
\* unchanged, survivors already carried into the new population included.
CopyIndependence == [][CopyStep]_vars

\* In a later generation a parent was copied from a survivor of the initial
\* population, and the child made from it was mutated away from the parent and
\* took cell i while an earlier cell kept its survivor
CopyIndependenceWitness ==
  \E e \in EngineIds :
    /\ InLoopAfterCell(e)
    /\ LET g == engines[e] IN
       /\ g.generation >= 1
       /\ g.i >= 2
       /\ g.config.mutationRate > 0
       /\ g.newPopulation[g.i] = g.child
       /\ g.newPopulation[1] = g.population[1]
       /\ g.sel1.b <= g.config.popSize
       /\ GenesOf(g, g.parent1) = GenesOf(g, g.sel1.b)
       /\ GenesOf(g, g.child) # GenesOf(g, g.parent1)
       /\ GenesOf(g, g.child) # GenesOf(g, g.parent2)

----------------------------------------------------------------------------
\* The individuals engine g refers to: both populations and the locals set
Referenced(g) ==
  (Range(g.population) \cup Range(g.newPopulation)
   \cup {g.parent1, g.parent2, g.child}) \ {NoRef}

\* C24: after construction and after any number of evolve() calls, and at
\* every point inside evolve(), every individual of the population (and every
\* parent copy and child) has exactly config.genomeLength genes.
FixedGenomeLength ==
  \A e \in EngineIds :
    (Ready(e) /\ engines[e].config.genomeLength >= 0) =>
      \A o \in Referenced(engines[e]) :
        Len(GenesOf(engines[e], o)) = engines[e].config.genomeLength

\* In a later generation a child of three genes, spliced at cut 2 and mutated,
\* has taken its cell
FixedGenomeLengthWitness ==
  \E e \in EngineIds :
    /\ InLoopAfterCell(e)
    /\ LET g == engines[e] IN
       /\ g.generation >= 1
       /\ g.config.genomeLength = 3
       /\ g.config.mutationRate > 0
       /\ g.cut = 2
       /\ g.newPopulation[g.i] = g.child
       /\ Len(GenesOf(g, g.child)) = 3
       /\ GenesOf(g, g.child) # GenesOf(g, g.parent1)

----------------------------------------------------------------------------
\* The cell ids of the neighborhood of cell c: its stored neighbors and c
Neighborhood(g, c) == Range(getNeighbors(g.neighbors, c)) \cup {c}

\* parent has the genes and fitness of the individual of a cell of ids
CopiedFrom(g, parent, ids) ==
  \E n \in ids :
    /\ GenesOf(g, parent) = GenesOf(g, g.population[n + 1])
    /\ FitnessOf(g, parent) = FitnessOf(g, g.population[n + 1])

\* C27: in evolve(), for the cell i just processed, every candidate drawn by
\* the two tournaments is the previous-generation individual of cell i or of an
\* id in getNeighbors(i), each parent is a copy of such an individual, the
\* neighborhood contains i, and (before mutation) every gene of the child is
\* the gene at that position of one of the two parents, so of an individual of
\* the neighborhood.
LocalParents ==
  \A e \in EngineIds :
    InLoopAfterCell(e) =>
      LET g    == engines[e]
          c    == g.i - 1
          ids  == Neighborhood(g, c)
          inds == {g.population[n + 1] : n \in ids}
      IN  /\ c \in ids
          /\ ids \subseteq 0..(g.config.popSize - 1)
          /\ {g.sel1.a, g.sel1.b, g.sel2.a, g.sel2.b} \subseteq inds
          /\ CopiedFrom(g, g.parent1, ids)
          /\ CopiedFrom(g, g.parent2, ids)
          /\ g.config.mutationRate = 0 =>
               \A k \in DOMAIN GenesOf(g, g.child) :
                 \E n \in ids : GenesOf(g, g.child)[k] = GenesOf(g, g.population[n + 1])[k]

\* On a ring of four, the cell opposite the processed one holds genes that no
\* cell of the neighborhood holds, and the child took genes of the second
\* parent that the first parent does not have
LocalParentsWitness ==
  \E e \in EngineIds :
    /\ InLoopAfterCell(e)
    /\ LET g == engines[e]
           c == g.i - 1
       IN  /\ g.config.popSize = 4 /\ g.config.topology = "ring"
           /\ g.config.mutationRate = 0
           /\ \E far \in (0..3) \ Neighborhood(g, c) :
                \A n \in Neighborhood(g, c) :
                  GenesOf(g, g.population[far + 1]) # GenesOf(g, g.population[n + 1])
           /\ GenesOf(g, g.child) # GenesOf(g, g.parent1)

----------------------------------------------------------------------------
\* Every id stored in the adjacency lists is a cell id
IdsAreCells(neighbors, popSize) ==
  \A c \in DOMAIN neighbors : \A k \in DOMAIN neighbors[c] :
    neighbors[c][k] \in 0..(popSize - 1)

\* C28: for every topology kind, every popSize >= 1 and every rewiring
\* probability, every id stored in a cell's neighbor list is an integer in
\* [0, popSize); hence every candidate drawn by a tournament in evolve() is an
\* existing individual of the population with a fitness that is set.
NeighborIdsValid ==
  \A e \in EngineIds :
    (Ready(e) /\ engines[e].config.popSize >= 1) =>
      LET g == engines[e] IN
      /\ Len(g.neighbors) = g.config.popSize
      /\ IdsAreCells(g.neighbors, g.config.popSize)
      /\ InLoopAfterCell(e) =>
           \A o \in {g.sel1.a, g.sel1.b, g.sel2.a, g.sel2.b} :
             /\ o \in Range(g.population)
             /\ o \in DOMAIN g.objs
             /\ FitnessOf(g, o) # NullFitness

\* A small-world engine of four cells with a rewired list has run a tournament
\* between two different individuals in a later generation
NeighborIdsValidWitness ==
  \E e \in EngineIds :
    /\ InLoopAfterCell(e)
    /\ LET g == engines[e] IN
       /\ g.config.topology = "smallworld" /\ g.config.popSize = 4
       /\ g.neighbors # buildRing(4)
       /\ g.generation >= 1
       /\ g.sel1.a # g.sel1.b

----------------------------------------------------------------------------
\* The parts of engine g that evolve() must leave alone
FrameOf(g) ==
  [status |-> g.status, config |-> g.config, rng |-> g.rng,
   neighbors |-> g.neighbors, positions |-> g.positions]

\* What a constructed engine was given by its constructor
ConstructedFrame(g) ==
  /\ g.neighbors = buildTopology(g.config.popSize, g.config.topology, g.config.rewiringProb,
                                 initPopulation(g.config, EmptyMachine(g.config.seed), <<>>, 0).m.seed).neighbors
  /\ g.positions = buildPositions(g.config.popSize, g.config.topology)

FrameStep == \A e \in EngineIds : FrameOf(engines'[e]) = FrameOf(engines[e])

\* C30: evolve() changes only the population, the generation counter, the
\* history and the generator's seed counter (and its own locals): at every
\* step, and so after any number of evolve() calls, the configuration, the
\* adjacency lists and the layout positions are what the constructor made.
EvolveFrame ==
  /\ [](\A e \in EngineIds : Ready(e) => ConstructedFrame(engines[e]))
  /\ [][FrameStep]_vars

\* A rewired small-world engine of four cells after three evolve() calls that
\* changed its population
EvolveFrameWitness ==
  \E e \in EngineIds :
    /\ Ready(e) /\ engines[e].pc = "idle"
    /\ engines[e].generation = 3
    /\ engines[e].config.topology = "smallworld" /\ engines[e].config.popSize = 4
    /\ engines[e].neighbors # buildRing(4)
    /\ \E k \in 1..4 : engines[e].population[k] > 4
    /\ rngs[engines[e].rng] > engines[e].config.seed + 12

----------------------------------------------------------------------------
\* The manager was asked for a topology kind the switch does not list
Fallback == tm.status # "absent" /\ tm.topology \notin {"ring", "grid", "smallworld"}

FallbackBuilt ==
  Fallback =>
    /\ tm.status = "ready"
    /\ tm.neighbors = buildGrid(tm.popSize)
    /\ tm.positions = gridPositions(tm.popSize)
    /\ call.op = "new" => rngs[RngOf(1)] = call.args[4]

FallbackStep == Fallback => (tm' = tm /\ rngs' = rngs)

\* C25: for a topology kind other than "ring", "grid" and "smallworld" the
\* builder returns at once with exactly the adjacency lists and the layout of
\* the grid for the same popSize, and the generator's counter is never moved.
TopologyFallback == [](FallbackBuilt) /\ [][FallbackStep]_vars

\* A manager of 9 cells of kind "hexagonal" has been built and asked for the
\* neighbors of its centre cell: the 8 other cells, as in the grid
TopologyFallbackWitness ==
  /\ Fallback /\ tm.popSize = 9
  /\ call.op = "getNeighbors" /\ call.args[1] = 4
  /\ call.result = <<0, 1, 2, 3, 5, 6, 7, 8>>
  /\ tm.positions[5] = [layout |-> "grid", row |-> 1, col |-> 1, of |-> 3]

----------------------------------------------------------------------------
\* C26: whenever the small-world builder of a manager with popSize >= 1 has
\* decided to rewire a slot, some cell id is neither the cell nor in its list,
\* so that the rejection-sampling loop can end (popSize 1, 2 and 3 included).
RewiringCanEnd ==
  (tm.pc = "draw" /\ tm.popSize >= 1) =>
    \E v \in 0..(tm.popSize - 1) :
      v # tm.i /\ \A k \in DOMAIN tm.neighbors[tm.i + 1] : tm.neighbors[tm.i + 1][k] # v

----------------------------------------------------------------------------
\* The engine the driver's gaRef points at
Current == engines[driver.gaRef]

\* g is as its constructor left it in slot e, built for configuration config
NewlyConstructed(g, config, e) ==
  /\ g.status = "ready" /\ g.pc = "idle"
  /\ g.generation = 0
  /\ g.history = EmptyHistory
  /\ [g.config EXCEPT !.seed = config.seed] = config
  /\ \E seed \in Now : g = Construct([config EXCEPT !.seed = seed], e).engine

\* Reset and a configuration change leave the run stopped; the newest pending
\* re-initialisation is for the driver's configuration, and once none is
\* pending the current engine is a new one for that configuration.  After
\* Reset the current engine is at generation 0 throughout.
Reinitialised ==
  (driver.control \in {"reset", "config"}) =>
    /\ ~driver.isRunning /\ driver.frames = {}
    /\ driver.timeouts = <<>> => NewlyConstructed(Current, driver.config, driver.gaRef)
    /\ driver.timeouts # <<>> => driver.timeouts[Len(driver.timeouts)] = driver.config
    /\ driver.control = "reset" => (Current.generation = 0 /\ Current.history = EmptyHistory)

\* Every step that installs an engine puts a newly constructed one in another
\* slot and leaves the previous instance as it was; every other step leaves
\* all engines but the current one alone and never takes the current one back
ReplacementStep ==
  /\ driver'.gaRef # 0
  /\ \A e \in EngineIds :
       (e # driver'.gaRef) => engines'[e] = engines[e]
  /\ (driver'.gaRef = driver.gaRef) =>
       /\ engines'[driver.gaRef].generation >= engines[driver.gaRef].generation
       /\ engines'[driver.gaRef].config = engines[driver.gaRef].config
  /\ (driver'.gaRef # driver.gaRef) =>
       /\ call'.op \in {"handleReset", "initGA"}
       /\ call'.op = "handleReset" =>
            NewlyConstructed(engines'[driver'.gaRef], driver.config, driver'.gaRef)
       /\ call'.op = "initGA" =>
            NewlyConstructed(engines'[driver'.gaRef], Head(driver.timeouts), driver'.gaRef)
       /\ Len(engines'[driver'.gaRef].population) = engines'[driver'.gaRef].config.popSize
       /\ Len(engines'[driver'.gaRef].neighbors) = engines'[driver'.gaRef].config.popSize
  /\ (call'.op \in {"handleReset", "initGA"}) =>
       driver'.gaRef # driver.gaRef

\* C23: in the simulator driver Reset, and every configuration change through
\* its deferred initGA, stop the run and install a newly constructed engine
\* (generation 0, empty history, population and topology built for the new
\* configuration) as another object; the previous instance is left exactly as
\* it was, is never re-initialised in place, and no later evolve() changes it.
ResetByReplacement ==
  /\ [](Reinitialised)
  /\ [][ReplacementStep]_vars

\* A run evolved the first engine, then popSize was changed to 3 and the
\* timeout installed a three-cell engine in the other slot; the discarded
\* engine still holds its generation 1
ResetByReplacementWitness ==
  /\ driver.mounted /\ driver.control = "config" /\ driver.timeouts = <<>>
  /\ driver.gaRef = 2
  /\ engines[2].config.popSize = 3 /\ engines[2].generation = 0
  /\ engines[1].config.popSize = 2 /\ engines[1].generation = 1

----------------------------------------------------------------------------
\* The animation-frame callbacks pending: at most one, the one animationRef
\* names, and only while the component is mounted and its run is on; while
\* mounted one exactly when the run is on; none after Pause, Reset or a
\* configuration change, also once the component is unmounted
OneFramePending ==
  /\ Cardinality(driver.frames) <= 1
  /\ driver.frames \subseteq {driver.animationRef}
  /\ driver.frames # {} => (driver.isRunning /\ driver.mounted)
  /\ driver.mounted => (driver.isRunning => driver.frames # {})
  /\ driver.control \in {"pause", "reset", "config"} =>
       (~driver.isRunning /\ driver.frames = {} /\ driver.animationRef = 0)

\* A step in which evolve() advanced some engine
Evolved(e) ==
  /\ engines'[e].status = "ready" /\ engines[e].status = "ready"
  /\ engines'[e].generation > engines[e].generation

\* evolve() runs only in an animation-frame callback of a run that Start began
\* and that no Pause, Reset or configuration change has ended since, and only
\* on the current engine
EvolveOnlyWhileRunning ==
  /\ \A e \in EngineIds :
       Evolved(e) =>
         /\ e = driver.gaRef
         /\ driver.control = "start" /\ driver.isRunning
         /\ call'.op = "animate"
  /\ (call'.op = "animate") =>
       (driver.control = "start" /\ driver'.control = "start" /\ driver.isRunning)

\* C29: in the simulator driver, under any interleaving of Start, Pause,
\* Reset, configuration changes, the deferred initGA timeout and
\* animation-frame callbacks, at most one animation-frame callback is pending
\* at any time, and after Pause, Reset or a configuration change no evolve()
\* is called on any engine until Start is invoked again.
DriverRunControl ==
  /\ [](OneFramePending)
  /\ [][EvolveOnlyWhileRunning]_vars

\* A run advanced the current engine to generation 1 and Pause has just
\* cancelled the one pending callback
DriverRunControlWitness ==
  /\ driver.mounted /\ driver.control = "pause" /\ call.op = "handlePause"
  /\ Current.generation = 1
  /\ ~driver.isRunning /\ driver.frames = {} /\ driver.animationRef = 0

----------------------------------------------------------------------------
\* Engine e has returned from at least one evolve() and holds a population
Evolved1(e) ==
  /\ Ready(e) /\ engines[e].pc = "idle"
  /\ engines[e].generation >= 1
  /\ engines[e].config.popSize >= 1

\* The newest history entries of engine g
LastBest(g) == g.history.best[Len(g.history.best)]
LastAvg(g) == g.history.avg[Len(g.history.avg)]

\* C31: after any evolve() call on an engine with a population (popSize >= 1),
\* the last entries of history.best and history.avg are the minimum and the
\* mean of the cached fitnesses of the population now installed, getStats()
\* reports exactly these two values as best and avg, and getBestIndividual()
\* returns an individual whose cached fitness is that best value.
StatsAgreeWithHistory ==
  \A e \in EngineIds :
    Evolved1(e) =>
      LET g == engines[e] IN
      /\ g.history.best # <<>> /\ g.history.avg # <<>>
      /\ IsMinimumOf(LastBest(g), g)
      /\ IsMeanOf(LastAvg(g), g)
      /\ (call.on = e /\ call.op = "getStats") =>
           (call.result.best = LastBest(g) /\ call.result.avg = LastAvg(g))
      /\ (call.on = e /\ call.op = "getBestIndividual") =>
           /\ ~call.result.thrown
           /\ FitnessOf(g, call.result.ref) = LastBest(g)
           /\ FitnessOf(g, call.result.ref) = getStats(g).best

\* getBestIndividual() has been called after the second evolve() of an engine
\* of four cells in which both the best and the mean fitness changed
StatsAgreeWithHistoryWitness ==
  /\ Evolved1(1)
  /\ call.op = "getBestIndividual" /\ call.on = 1
  /\ LET g == engines[1] IN
     /\ g.generation = 2 /\ g.config.popSize = 4
     /\ g.history.best[2] < g.history.best[1]
     /\ g.history.avg[2] # g.history.avg[1]
     /\ FitnessOf(g, call.result.ref) = g.history.best[2]

----------------------------------------------------------------------------
\* Every gene of individual o of engine g is a bit
BitGenes(g, o) == \A k \in DOMAIN GenesOf(g, o) : GenesOf(g, o)[k] \in {0, 1}

\* C32: in a run with onemax or trap and genomeLength L >= 0, after
\* construction, after any number of evolve() calls and at every point inside
\* evolve(), every gene of every individual of the population (and of every
\* parent copy and child) is 0 or 1 and every cached fitness is an integer
\* in [0, L].
BitVectorDomain ==
  \A e \in EngineIds :
    (Ready(e) /\ isBinary(engines[e].config) /\ engines[e].config.genomeLength >= 0) =>
      LET g == engines[e] IN
      /\ \A o \in Referenced(g) :
           /\ BitGenes(g, o)
           /\ FitnessOf(g, o) \in 0..g.config.genomeLength
      /\ \A k \in DOMAIN g.population :
           FitnessOf(g, g.population[k]) # NullFitness

\* A trap run on three genes after an evolve() with mutation: one cell holds a
\* child, which scores less than 3, and one cell scores the worst value 3
BitVectorDomainWitness ==
  \E e \in EngineIds :
    /\ Ready(e) /\ engines[e].pc = "idle"
    /\ LET g == engines[e] IN
       /\ g.generation >= 1
       /\ g.config.fitnessFunction = "trap" /\ g.config.genomeLength = 3
       /\ g.config.mutationRate > 0
       /\ \E k \in DOMAIN g.population :
            /\ g.population[k] > g.config.popSize
            /\ FitnessOf(g, g.population[k]) \in 0..2
       /\ \E k \in DOMAIN g.population : FitnessOf(g, g.population[k]) = 3
====
